---------------------------- MODULE Spec2Model ----------------------------
(***************************************************************************)
(* Model of the Dawn.com ingestion engine: the article store and its       *)
(* deduplicating add_article (database.py), the scrape cycle (scraper.py), *)
(* the keyword classifier (scraper.py) and the background polling loops    *)
(* (main.py, scheduler.py).                                                *)
(***************************************************************************)
EXTENDS Integers, Sequences, FiniteSets, TLC

(***************************************************************************)
(* Bounds of the model.                                                    *)
(***************************************************************************)
\* add_article calls made in one behaviour, over all sessions
MaxCalls == 3
\* ticks of the wall clock (datetime.utcnow) the model distinguishes
MaxClock == 1
\* links the listing page can hold
MaxLinks == 3
\* cycles run in one behaviour
MaxCycles == 2
\* background threads started in one behaviour
MaxThreads == 2
\* cycles of one loop that raise in a row
MaxFailures == 2
\* pieces a title is made of, at most
MaxTitlePieces == 2
\* calls of categorize_article with the same arguments
MaxCategorizeCalls == 2
\* seconds by which a timestamp and the time of the call are moved
MaxSkew == 3
\* anchors of a listing document
MaxAnchors == 2
\* the largest day number a date text holds
MaxDay == 32
\* the largest month number a date text holds
MaxMonth == 13
\* rows of the table a read operation runs on
MaxRows == 2
\* the largest skip and limit of a read operation
MaxPage == 2
\* elements of an article page
MaxElements == 2
\* pieces a content is made of, at most
MaxPieces == 5

VARIABLES
    articles,          \* the "articles" table: rows in insertion order
    clock,             \* datetime.utcnow()
    pc,                \* per session: where its add_article call stands
    article_data,      \* per session: the dict passed to add_article
    existing_article,  \* per session: add_article's local existing_article
    article,           \* per session: the caller's variable holding the last return
    calls,             \* add_article calls begun
    web_pages,         \* the site: what the page of the i-th listed link serves
    cpc,               \* where the running cycle stands
    kind,              \* which entry point runs the cycle
    max_articles,      \* scrape_latest_articles(max_articles)
    soup,              \* whether fetch_page(latest_news_url) returned a document
    article_links,     \* scrape_latest_articles: the truncated list of links
    scraped,           \* scrape_latest_articles: the list "articles"
    saved_count,       \* save_articles_to_db: saved_count
    save_idx,          \* save_articles_to_db: records of "articles" handled so far
    stats,             \* what the cycle returned to its caller
    fetched,           \* the article urls fetch_page was called with, in order
    offered,           \* the records add_article was called with, in order
    initial_count,     \* number of rows when the cycle began
    cycles,            \* cycles begun
    added,             \* what add_article returned for each record of "offered"
    causes,            \* why: "saved", "duplicate", or "error" for a storage failure
    previous,          \* the cycle before the running one fetched the listing and handled
                       \* at least the candidates the running one may handle
    scraper_running,   \* main.py: the global flag
    scraper_thread,    \* main.py: the thread start_background_scraper made last, 0 for None
    tpc,               \* main.py: where each background_scraper thread stands
    failures,          \* per thread: cycles that raised in a row
    stop_requested,    \* stop was called and start was not called since
    is_running,        \* scheduler.py: ScrapingScheduler.is_running
    stop_event,        \* scheduler.py: ScrapingScheduler.stop_event is set
    scheduler_thread,  \* scheduler.py: the thread start_scheduler made last, 0 for None
    spc,               \* scheduler.py: where each _run_scheduler thread stands
    jobs,              \* scheduler.py: the schedule module holds the scraping jobs
    job_failures,      \* per thread: scraping_job runs that failed in a row
    caller,            \* scheduler.py: where the thread calling start/stop stands
    active,            \* which of the two schedulers the behaviour exercises
    title,             \* categorize_article: the title argument, one character per element
    content,           \* categorize_article: the content argument
    returned,          \* what the calls of categorize_article(title, content) returned, in order
    published_date,    \* is_recent_article: article_data.get('published_date')
    is_recent,         \* what is_recent_article returned, <<>> before the call
    listing,           \* extract_article_links: the anchors of the listing document, in document order
    extracted,         \* what extract_article_links returned, wrapped; <<>> before the call
    date_text,         \* parse_date: the date_text argument
    parsed,            \* what parse_date did, wrapped; <<>> before the call
    date_format,       \* the index in date_formats of the format a text is tried under
    rendered,          \* strftime of the parsed datetime in that format, wrapped; <<>> if none
    article_page,      \* extract_article_content: the elements of the page, in document order
    extracted_title,   \* the title it extracted, wrapped; <<>> before the call
    raw_content,       \* clean_content: the content argument, one character per element
    cleaned,           \* what clean_content returned, wrapped; <<>> before the call
    query_args,        \* the last read operation of database.py and its arguments
    query_result,      \* what it returned
    response,          \* what the last status or run-now request returned
    last_cycle         \* the time the last cycle of a loop began, wrapped; <<>> before the first

sessVars == <<pc, article_data, existing_article, article, calls>>

cycleVars == <<web_pages, cpc, kind, max_articles, soup, article_links, scraped,
               saved_count, save_idx, stats, fetched, offered, initial_count, cycles,
               added, causes, previous>>

mainVars == <<scraper_running, scraper_thread, tpc, failures, stop_requested>>

schedVars == <<is_running, stop_event, scheduler_thread, spc, jobs, job_failures,
               caller, active>>

classVars == <<title, content, returned>>

recentVars == <<published_date, is_recent>>

\* the variables of the functions that are checked on their own
linkVars == <<listing, extracted>>

dateVars == <<date_text, parsed, date_format, rendered>>

queryVars == <<query_args, query_result>>

titleVars == <<article_page, extracted_title>>

cleanVars == <<raw_content, cleaned>>

pureVars == <<classVars, recentVars, linkVars, dateVars, queryVars, titleVars, cleanVars>>

statusVars == <<response, last_cycle>>

vars == <<articles, clock, sessVars, cycleVars, mainVars, schedVars, pureVars, statusVars>>

(***************************************************************************)
(* database.py: the Article table and add_article                          *)
(***************************************************************************)
\* the sessions that write: background_scraper's save_articles_to_db and the
\* request session of run_scraper_now
Sessions == {"background", "manual"}

\* SQL NULL in the url column (article_data.get('url') is None)
NullUrl == "<NULL>"

Titles == {"", "t1", "t2"}
Urls == {NullUrl, "", "u1"}

\* the dicts handed to add_article
ArticleData == [title : Titles, url : Urls]

\* Python None where an Article row is expected
NoArticle == [id |-> 0, title |-> "", url |-> NullUrl, scraped_at |-> 0]

\* article_data before the first call of a session
NoData == [title |-> "<unbound>", url |-> NullUrl]

\* Python truthiness of article_data.get(key): None and '' are falsy
Truthy(v) == v # NullUrl /\ v # ""

Rows == {articles[i] : i \in 1..Len(articles)}

\* db.query(Article).filter(Article.title == t).first()
FirstByTitle(t) ==
    IF \E i \in 1..Len(articles) : articles[i].title = t
    THEN articles[CHOOSE i \in 1..Len(articles) :
                    /\ articles[i].title = t
                    /\ \A j \in 1..(i-1) : articles[j].title # t]
    ELSE NoArticle

\* db.query(Article).filter(Article.url == u).first()
FirstByUrl(u) ==
    IF \E i \in 1..Len(articles) : articles[i].url = u
    THEN articles[CHOOSE i \in 1..Len(articles) :
                    /\ articles[i].url = u
                    /\ \A j \in 1..(i-1) : articles[j].url # u]
    ELSE NoArticle

\* UniqueViolation without UNIQUE(url): only the title is constrained
UniqueViolationTitleOnly(t, u) ==
    \E i \in 1..Len(articles) : articles[i].title = t

\* UniqueViolation without UNIQUE(title): only the url is constrained
UniqueViolationUrlOnly(t, u) ==
    u # NullUrl /\ \E i \in 1..Len(articles) : articles[i].url = u

\* the table's UNIQUE(title) and UNIQUE(url): would inserting (t, u) violate one?
\* SQL NULLs never collide under UNIQUE.
UniqueViolation(t, u) ==
    \/ \E r \in Rows : r.title = t
    \/ u # NullUrl /\ \E r \in Rows : r.url = u

\* NewArticle with the id of the last row instead of the next one
NewArticleReusesId(d) ==
    [id |-> Len(articles), title |-> d.title, url |-> d.url, scraped_at |-> clock]

\* Article(...) as built by add_article, as it reads after commit and refresh
NewArticle(d) ==
    [id |-> Len(articles) + 1, title |-> d.title, url |-> d.url, scraped_at |-> clock]

\* OnIntegrityError without the except clauses: the error reaches the caller
OnIntegrityErrorPropagates(s) ==
    /\ pc' = [pc EXCEPT ![s] = "raised"]
    /\ UNCHANGED <<articles, article>>

\* except IntegrityError / except Exception: rollback, return None
OnIntegrityError(s) ==
    /\ pc' = [pc EXCEPT ![s] = "idle"]
    /\ article' = [article EXCEPT ![s] = NoArticle]
    /\ UNCHANGED articles

\* a caller invokes add_article(db, article_data)
AddArticleCall(s) ==
    /\ pc[s] = "idle"
    /\ calls < MaxCalls
    /\ \E d \in ArticleData : article_data' = [article_data EXCEPT ![s] = d]
    /\ existing_article' = [existing_article EXCEPT ![s] = NoArticle]
    /\ calls' = calls + 1
    /\ pc' = [pc EXCEPT ![s] = "check_title"]
    /\ UNCHANGED <<articles, clock, article, cycleVars, mainVars, schedVars>>
    /\ UNCHANGED <<pureVars, statusVars>>

\* if article_data.get('title'): existing_article = query by title
AddArticleCheckTitle(s) ==
    /\ pc[s] = "check_title"
    /\ existing_article' = [existing_article EXCEPT ![s] =
            IF Truthy(article_data[s].title)
            THEN FirstByTitle(article_data[s].title)
            ELSE NoArticle]
    /\ pc' = [pc EXCEPT ![s] = "check_url"]
    /\ UNCHANGED <<articles, clock, article_data, article, calls, cycleVars, mainVars, schedVars>>
    /\ UNCHANGED <<pureVars, statusVars>>

\* if not existing_article and url: query by url; if existing_article: return None
AddArticleCheckUrl(s) ==
    /\ pc[s] = "check_url"
    /\ LET found == IF existing_article[s] = NoArticle /\ Truthy(article_data[s].url)
                    THEN FirstByUrl(article_data[s].url)
                    ELSE existing_article[s]
       IN /\ existing_article' = [existing_article EXCEPT ![s] = found]
          /\ IF found # NoArticle
             THEN /\ pc' = [pc EXCEPT ![s] = "idle"]
                  /\ article' = [article EXCEPT ![s] = NoArticle]
             ELSE /\ pc' = [pc EXCEPT ![s] = "insert"]
                  /\ UNCHANGED article
    /\ UNCHANGED <<articles, clock, article_data, calls, cycleVars, mainVars, schedVars>>
    /\ UNCHANGED <<pureVars, statusVars>>

\* db.add(article); db.commit(); db.refresh(article); return article
AddArticleInsert(s) ==
    /\ pc[s] = "insert"
    /\ IF UniqueViolation(article_data[s].title, article_data[s].url)
       THEN OnIntegrityError(s)
       ELSE /\ articles' = Append(articles, NewArticle(article_data[s]))
            /\ article' = [article EXCEPT ![s] = NewArticle(article_data[s])]
            /\ pc' = [pc EXCEPT ![s] = "idle"]
    /\ UNCHANGED <<clock, article_data, existing_article, calls, cycleVars, mainVars, schedVars>>
    /\ UNCHANGED <<pureVars, statusVars>>

\* time passes
Tick ==
    /\ clock < MaxClock
    /\ clock' = clock + 1
    /\ UNCHANGED <<articles, sessVars, cycleVars, mainVars, schedVars>>
    /\ UNCHANGED <<pureVars, statusVars>>

(***************************************************************************)
(* scraper.py: is_recent_article                                           *)
(***************************************************************************)
\* return time_diff <= 600
RecentSeconds == 600

\* for fmt in [...]: the formats datetime.strptime is tried with
RecentFormats == {"%Y-%m-%dT%H:%M:%S", "%Y-%m-%d %H:%M:%S", "%d %b, %Y %I:%M%p"}

\* a text in none of the three formats
OtherFormat == "other"

\* published_date is None
NoDate == [type |-> "None", at |-> 0, fmt |-> OtherFormat]

\* article_data.get('published_date'): None, a str written in some format, or
\* a datetime as parse_date returns it; "at" is the instant it denotes, in
\* seconds; a text of the third format has no seconds
PublishedDates ==
    {NoDate}
      \cup [type : {"str"}, at : 0..MaxSkew,
            fmt : {"%Y-%m-%dT%H:%M:%S", "%Y-%m-%d %H:%M:%S", OtherFormat}]
      \cup {[type |-> "str", at |-> 0, fmt |-> "%d %b, %Y %I:%M%p"]}
      \cup [type : {"datetime"}, at : 0..MaxSkew, fmt : {OtherFormat}]

\* is_recent_article(article_data) at the time now. "from datetime import
\* datetime" in the str branch makes datetime a local name of the function, so
\* when published_date is not a str, datetime.utcnow() raises UnboundLocalError,
\* which the outer except turns into False
IsRecentArticle(pd, now) ==
    IF pd.type = "None" THEN FALSE
    ELSE IF pd.type = "str"
         THEN IF pd.fmt \in RecentFormats
              THEN now - pd.at <= RecentSeconds
              ELSE FALSE
         ELSE FALSE

\* one call of is_recent_article
IsRecentArticleCall ==
    /\ is_recent = <<>>
    /\ is_recent' = <<IsRecentArticle(published_date, clock)>>
    /\ UNCHANGED <<articles, clock, sessVars, cycleVars, mainVars, schedVars, classVars,
                   published_date, linkVars, dateVars, queryVars, titleVars, cleanVars, statusVars>>

(***************************************************************************)
(* scraper.py: one scrape cycle                                            *)
(***************************************************************************)
\* scraper.py:414, the least content length scrape_article accepts
MinContentLength == 100
\* main.py:95, max_articles of the background loop
BackgroundMaxArticles == 50
\* main.py:551, max_articles of run_scraper_now
ManualMaxArticles == 10

\* the absolute urls of the links on the listing page, in document order
UrlNames == <<"u1", "u2", "u3", "u4", "u5">>

\* what extract_article_content can read from a page, as titles and as lengths
\* of the cleaned content; published_date is what parse_date made of the date
\* element, None when the page has none
PageTitles == {"", "t1", "t2"}
ContentLens == {0, MinContentLength - 1, MinContentLength}

\* fetch_page returned None
FetchFailed == [ok |-> FALSE, title |-> "", content_len |-> 0, published_date |-> NoDate]

\* what fetching and extracting one article url can give: a failed fetch, a
\* page of every content length under the first title, and a page of
\* sufficient content under every title, the empty one included
Pages ==
    {FetchFailed} \cup
    {p \in {[ok |-> TRUE, title |-> t, content_len |-> n, published_date |-> NoDate] :
                t \in PageTitles, n \in ContentLens} :
        p.title = "t1" \/ p.content_len = MinContentLength}

\* the entry points that run a cycle: run_scraping_job, the body of
\* background_scraper, run_scraper_now
Kinds == {"job", "background", "manual"}

\* scrape_article returned None
NoRecord == [title |-> "<unbound>", content_len |-> 0, url |-> NullUrl]

\* no statistics returned (yet)
NoStats == <<>>

\* extract_article_links(soup) on the listing page
WebLinks == [i \in 1..Len(web_pages) |-> UrlNames[i]]

\* ListingLinks that carries on after a failed fetch
ListingLinksIgnoreFailure(ok) == WebLinks

\* scrape_latest_articles: the links of the listing, none when the fetch failed
ListingLinks(ok) == IF ok THEN WebLinks ELSE <<>>

\* article_links[:max_articles]
\* a slice that keeps one link more
TruncateOneMore(links, m) ==
    SubSeq(links, 1, IF m + 1 < Len(links) THEN m + 1 ELSE Len(links))

Truncate(links, m) ==
    SubSeq(links, 1, IF m < Len(links) THEN m ELSE Len(links))

\* ScrapeArticle without the check of the content length
ScrapeArticleNoLengthCheck(url, page) ==
    IF ~page.ok THEN NoRecord
    ELSE IF page.title = "" \/ page.content_len = 0 THEN NoRecord
    ELSE [title |-> page.title, content_len |-> page.content_len, url |-> url]

\* ScrapeArticle without any validation of the extracted data
ScrapeArticleNoValidation(url, page) ==
    IF ~page.ok THEN NoRecord
    ELSE [title |-> page.title, content_len |-> page.content_len, url |-> url]

\* scrape_article(url): None on a failed fetch, on an empty title or content,
\* and on content shorter than the threshold
ScrapeArticle(url, page) ==
    IF ~page.ok THEN NoRecord
    ELSE IF page.title = "" \/ page.content_len = 0 THEN NoRecord
    ELSE IF page.content_len < MinContentLength THEN NoRecord
    ELSE [title |-> page.title, content_len |-> page.content_len, url |-> url]

\* Appended that keeps a record only when is_recent_article returned True
AppendedWhenRecent(list, data, recent) ==
    IF data # NoRecord /\ recent THEN Append(list, data) ELSE list

\* scrape_latest_articles: "if article_data: articles.append(article_data)",
\* before is_recent_article is called; what that call returns only chooses
\* the log line
Appended(list, data, recent) ==
    IF data # NoRecord THEN Append(list, data) ELSE list

\* Rejected that looks only at the rows added during the running cycle
RejectedWithinCycleOnly(d) ==
    \E k \in (initial_count + 1)..Len(articles) :
        articles[k].title = d.title \/ articles[k].url = d.url

\* add_article run to its end without interleaving returns None for d
Rejected(d) ==
    \/ Truthy(d.title) /\ FirstByTitle(d.title) # NoArticle
    \/ Truthy(d.url) /\ FirstByUrl(d.url) # NoArticle
    \/ UniqueViolation(d.title, d.url)

\* run_scraping_job: the statistics dict
\* statistics that report every scraped record as saved
JobStatsAllSaved(n_scraped, n_saved) ==
    [total_scraped |-> n_scraped, total_saved |-> n_scraped, duplicates_skipped |-> 0]

JobStats(n_scraped, n_saved) ==
    [total_scraped |-> n_scraped, total_saved |-> n_saved,
     duplicates_skipped |-> n_scraped - n_saved]

\* run_scraper_now: the counters of the response
ManualStats(n_scraped, n_saved) ==
    [articles_scraped |-> n_scraped, articles_saved |-> n_saved]

\* an entry point begins a cycle
CycleStart ==
    /\ cpc \in {"idle", "done"}
    /\ cycles < MaxCycles
    /\ \E k \in Kinds, m \in 1..MaxLinks :
          /\ kind' = k
          /\ max_articles' = CASE k = "job" -> m
                               [] k = "background" -> BackgroundMaxArticles
                               [] k = "manual" -> ManualMaxArticles
    /\ previous' = /\ cpc = "done"
                   /\ soup
                   /\ (max_articles >= max_articles' \/ max_articles >= Len(web_pages))
    /\ cpc' = "listing"
    /\ soup' = FALSE
    /\ article_links' = <<>>
    /\ scraped' = <<>>
    /\ saved_count' = 0
    /\ save_idx' = 0
    /\ stats' = NoStats
    /\ fetched' = <<>>
    /\ offered' = <<>>
    /\ initial_count' = Len(articles)
    /\ cycles' = cycles + 1
    /\ added' = <<>>
    /\ causes' = <<>>
    /\ UNCHANGED <<articles, clock, sessVars, mainVars, schedVars, web_pages>>
    /\ UNCHANGED <<pureVars, statusVars>>

\* scrape_latest_articles: fetch the listing, extract and truncate the links
FetchListing ==
    /\ cpc = "listing"
    /\ \E ok \in BOOLEAN :
          /\ soup' = ok
          /\ article_links' = Truncate(ListingLinks(ok), max_articles)
    /\ cpc' = IF article_links' = <<>> THEN "save" ELSE "scrape"
    /\ UNCHANGED <<articles, clock, sessVars, mainVars, schedVars, web_pages, kind, max_articles, scraped,
                   saved_count, save_idx, stats, fetched, offered, initial_count,
                   cycles, added, causes, previous>>
    /\ UNCHANGED <<pureVars, statusVars>>

\* scrape_latest_articles: one turn of the loop over article_links
ScrapeNextArticle ==
    /\ cpc = "scrape"
    /\ LET i == Len(fetched) + 1
           data == ScrapeArticle(article_links[i], web_pages[i])
       IN /\ fetched' = Append(fetched, article_links[i])
          /\ scraped' = Appended(scraped, data,
                                 IsRecentArticle(web_pages[i].published_date, clock))
          /\ cpc' = IF i = Len(article_links) THEN "save" ELSE "scrape"
    /\ UNCHANGED <<articles, clock, sessVars, mainVars, schedVars, web_pages, kind, max_articles, soup,
                   article_links, saved_count, save_idx, stats, offered,
                   initial_count, cycles, added, causes, previous>>
    /\ UNCHANGED <<pureVars, statusVars>>

\* save_articles_to_db / run_scraper_now: one turn of the loop over the records
\* save_articles_to_db leaving its loop at the first record add_article turns
\* away
SaveNextArticleStopsAtDuplicate ==
    /\ cpc = "save"
    /\ save_idx < Len(scraped)
    /\ LET d == scraped[save_idx + 1]
       IN /\ offered' = Append(offered, d)
          /\ IF Rejected(d)
             THEN /\ UNCHANGED <<articles, saved_count>>
                  /\ added' = Append(added, NoArticle)
                  /\ causes' = Append(causes, "duplicate")
                  /\ save_idx' = Len(scraped)
             ELSE /\ articles' = Append(articles, NewArticle(d))
                  /\ saved_count' = saved_count + 1
                  /\ added' = Append(added, NewArticle(d))
                  /\ causes' = Append(causes, "saved")
                  /\ save_idx' = save_idx + 1
    /\ UNCHANGED <<clock, sessVars, mainVars, schedVars, web_pages, cpc, kind, max_articles, soup,
                   article_links, scraped, stats, fetched, initial_count, cycles, previous>>
    /\ UNCHANGED <<pureVars, statusVars>>

SaveNextArticle ==
    /\ cpc = "save"
    /\ save_idx < Len(scraped)
    /\ LET d == scraped[save_idx + 1]
       IN /\ offered' = Append(offered, d)
          /\ IF Rejected(d)
             THEN /\ UNCHANGED <<articles, saved_count>>
                  /\ added' = Append(added, NoArticle)
                  /\ causes' = Append(causes, "duplicate")
             ELSE /\ articles' = Append(articles, NewArticle(d))
                  /\ saved_count' = saved_count + 1
                  /\ added' = Append(added, NewArticle(d))
                  /\ causes' = Append(causes, "saved")
    /\ save_idx' = save_idx + 1
    /\ UNCHANGED <<clock, sessVars, mainVars, schedVars, web_pages, cpc, kind, max_articles, soup,
                   article_links, scraped, stats, fetched, initial_count, cycles, previous>>
    /\ UNCHANGED <<pureVars, statusVars>>

\* SaveNextArticleFails with the error leaving the loop: the records after the
\* failed one are not handled
SaveNextArticleFailsAborts ==
    /\ cpc = "save"
    /\ save_idx < Len(scraped)
    /\ offered' = Append(offered, scraped[save_idx + 1])
    /\ added' = Append(added, NoArticle)
    /\ causes' = Append(causes, "error")
    /\ save_idx' = Len(scraped)
    /\ UNCHANGED <<articles, clock, sessVars, mainVars, schedVars, web_pages, cpc, kind,
                   max_articles, soup, article_links, scraped, saved_count, stats, fetched,
                   initial_count, cycles, previous>>
    /\ UNCHANGED <<pureVars, statusVars>>

\* one turn of the same loop in which the database fails: a query or the
\* commit in add_article raises an error other than IntegrityError, add_article
\* rolls back and returns None
SaveNextArticleFails ==
    /\ cpc = "save"
    /\ save_idx < Len(scraped)
    /\ offered' = Append(offered, scraped[save_idx + 1])
    /\ added' = Append(added, NoArticle)
    /\ causes' = Append(causes, "error")
    /\ save_idx' = save_idx + 1
    /\ UNCHANGED <<articles, clock, sessVars, mainVars, schedVars, web_pages, cpc, kind,
                   max_articles, soup, article_links, scraped, saved_count, stats, fetched,
                   initial_count, cycles, previous>>
    /\ UNCHANGED <<pureVars, statusVars>>

\* the cycle returns to its caller
CycleReturn ==
    /\ cpc = "save"
    /\ save_idx = Len(scraped)
    /\ stats' = CASE kind = "job" ->
                       JobStats(Len(scraped), saved_count)
                  [] kind = "manual" -> ManualStats(Len(scraped), saved_count)
                  [] kind = "background" -> NoStats
    /\ cpc' = "done"
    /\ UNCHANGED <<articles, clock, sessVars, mainVars, schedVars, web_pages, kind, max_articles, soup,
                   article_links, scraped, saved_count, save_idx, fetched, offered,
                   initial_count, cycles, added, causes, previous>>
    /\ UNCHANGED <<pureVars, statusVars>>

(***************************************************************************)
(* scraper.py: categorize_article                                          *)
(***************************************************************************)
\* the lexicon, in the order the dict literal defines it; a keyword is written
\* one character per element
CATEGORY_KEYWORDS == <<
    [category |-> "Pakistan",
     keywords |-> <<
          \* pakistan
          <<"p","a","k","i","s","t","a","n">>,
          \* pakistani
          <<"p","a","k","i","s","t","a","n","i">>,
          \* islamabad
          <<"i","s","l","a","m","a","b","a","d">>,
          \* karachi
          <<"k","a","r","a","c","h","i">>,
          \* lahore
          <<"l","a","h","o","r","e">>,
          \* punjab
          <<"p","u","n","j","a","b">>,
          \* sindh
          <<"s","i","n","d","h">>,
          \* balochistan
          <<"b","a","l","o","c","h","i","s","t","a","n">>,
          \* kpk
          <<"k","p","k">>>>],
    [category |-> "World",
     keywords |-> <<
          \* world
          <<"w","o","r","l","d">>,
          \* international
          <<"i","n","t","e","r","n","a","t","i","o","n","a","l">>,
          \* global
          <<"g","l","o","b","a","l">>,
          \* china
          <<"c","h","i","n","a">>,
          \* india
          <<"i","n","d","i","a">>,
          \* america
          <<"a","m","e","r","i","c","a">>,
          \* europe
          <<"e","u","r","o","p","e">>,
          \* afghanistan
          <<"a","f","g","h","a","n","i","s","t","a","n">>,
          \* iran
          <<"i","r","a","n">>>>],
    [category |-> "Business",
     keywords |-> <<
          \* business
          <<"b","u","s","i","n","e","s","s">>,
          \* economy
          <<"e","c","o","n","o","m","y">>,
          \* economic
          <<"e","c","o","n","o","m","i","c">>,
          \* market
          <<"m","a","r","k","e","t">>,
          \* trade
          <<"t","r","a","d","e">>,
          \* finance
          <<"f","i","n","a","n","c","e">>,
          \* bank
          <<"b","a","n","k">>,
          \* rupee
          <<"r","u","p","e","e">>,
          \* dollar
          <<"d","o","l","l","a","r">>,
          \* inflation
          <<"i","n","f","l","a","t","i","o","n">>>>],
    [category |-> "Sports",
     keywords |-> <<
          \* sports
          <<"s","p","o","r","t","s">>,
          \* cricket
          <<"c","r","i","c","k","e","t">>,
          \* football
          <<"f","o","o","t","b","a","l","l">>,
          \* hockey
          <<"h","o","c","k","e","y">>,
          \* tennis
          <<"t","e","n","n","i","s">>,
          \* olympics
          <<"o","l","y","m","p","i","c","s">>,
          \* asia cup
          <<"a","s","i","a"," ","c","u","p">>,
          \* world cup
          <<"w","o","r","l","d"," ","c","u","p">>,
          \* match
          <<"m","a","t","c","h">>>>],
    [category |-> "Technology",
     keywords |-> <<
          \* technology
          <<"t","e","c","h","n","o","l","o","g","y">>,
          \* tech
          <<"t","e","c","h">>,
          \* digital
          <<"d","i","g","i","t","a","l">>,
          \* ai
          <<"a","i">>,
          \* artificial intelligence
          <<"a","r","t","i","f","i","c","i","a","l"," ","i","n","t","e","l","l","i","g","e","n","c","e">>,
          \* cyber
          <<"c","y","b","e","r">>,
          \* internet
          <<"i","n","t","e","r","n","e","t">>,
          \* social media
          <<"s","o","c","i","a","l"," ","m","e","d","i","a">>>>],
    [category |-> "Health",
     keywords |-> <<
          \* health
          <<"h","e","a","l","t","h">>,
          \* medical
          <<"m","e","d","i","c","a","l">>,
          \* doctor
          <<"d","o","c","t","o","r">>,
          \* hospital
          <<"h","o","s","p","i","t","a","l">>,
          \* vaccine
          <<"v","a","c","c","i","n","e">>,
          \* covid
          <<"c","o","v","i","d">>,
          \* disease
          <<"d","i","s","e","a","s","e">>,
          \* treatment
          <<"t","r","e","a","t","m","e","n","t">>>>],
    [category |-> "Politics",
     keywords |-> <<
          \* politics
          <<"p","o","l","i","t","i","c","s">>,
          \* political
          <<"p","o","l","i","t","i","c","a","l">>,
          \* government
          <<"g","o","v","e","r","n","m","e","n","t">>,
          \* minister
          <<"m","i","n","i","s","t","e","r">>,
          \* parliament
          <<"p","a","r","l","i","a","m","e","n","t">>,
          \* election
          <<"e","l","e","c","t","i","o","n">>,
          \* vote
          <<"v","o","t","e">>,
          \* democracy
          <<"d","e","m","o","c","r","a","c","y">>>>],
    [category |-> "Crime",
     keywords |-> <<
          \* crime
          <<"c","r","i","m","e">>,
          \* criminal
          <<"c","r","i","m","i","n","a","l">>,
          \* police
          <<"p","o","l","i","c","e">>,
          \* court
          <<"c","o","u","r","t">>,
          \* jail
          <<"j","a","i","l">>,
          \* arrest
          <<"a","r","r","e","s","t">>,
          \* murder
          <<"m","u","r","d","e","r">>,
          \* theft
          <<"t","h","e","f","t">>,
          \* fraud
          <<"f","r","a","u","d">>>>],
    [category |-> "Education",
     keywords |-> <<
          \* education
          <<"e","d","u","c","a","t","i","o","n">>,
          \* school
          <<"s","c","h","o","o","l">>,
          \* university
          <<"u","n","i","v","e","r","s","i","t","y">>,
          \* student
          <<"s","t","u","d","e","n","t">>,
          \* teacher
          <<"t","e","a","c","h","e","r">>,
          \* exam
          <<"e","x","a","m">>,
          \* degree
          <<"d","e","g","r","e","e">>,
          \* college
          <<"c","o","l","l","e","g","e">>>>],
    [category |-> "Entertainment",
     keywords |-> <<
          \* entertainment
          <<"e","n","t","e","r","t","a","i","n","m","e","n","t">>,
          \* movie
          <<"m","o","v","i","e">>,
          \* music
          <<"m","u","s","i","c">>,
          \* celebrity
          <<"c","e","l","e","b","r","i","t","y">>,
          \* actor
          <<"a","c","t","o","r">>,
          \* singer
          <<"s","i","n","g","e","r">>,
          \* film
          <<"f","i","l","m">>,
          \* show
          <<"s","h","o","w">>>>]>>

UpperCase == <<"A","B","C","D","E","F","G","H","I","J","K","L","M",
               "N","O","P","Q","R","S","T","U","V","W","X","Y","Z">>

LowerCase == <<"a","b","c","d","e","f","g","h","i","j","k","l","m",
               "n","o","p","q","r","s","t","u","v","w","x","y","z">>

\* str.lower() on one character
LowerChar(c) ==
    IF \E i \in 1..Len(UpperCase) : UpperCase[i] = c
    THEN LowerCase[CHOOSE i \in 1..Len(UpperCase) : UpperCase[i] = c]
    ELSE c

\* str.lower()
Lower(s) == [i \in 1..Len(s) |-> LowerChar(s[i])]

\* f"{title} {content}": the two arguments with one space between them
Combine(t, c) == t \o <<" ">> \o c

\* keyword in text
Occurs(keyword, text) ==
    \E i \in 1..(Len(text) - Len(keyword) + 1) :
        SubSeq(text, i, i + Len(keyword) - 1) = keyword

\* sum(1 for keyword in keywords if keyword in text)
RECURSIVE KeywordScore(_, _)
KeywordScore(keywords, text) ==
    IF keywords = <<>> THEN 0
    ELSE (IF Occurs(Head(keywords), text) THEN 1 ELSE 0)
            + KeywordScore(Tail(keywords), text)

\* the dict category_scores as its items in insertion order: the categories
\* of the lexicon from the i-th on that score above zero
RECURSIVE CategoryScores(_, _)
CategoryScores(i, text) ==
    IF i > Len(CATEGORY_KEYWORDS) THEN <<>>
    ELSE LET score == KeywordScore(CATEGORY_KEYWORDS[i].keywords, text)
             rest  == CategoryScores(i + 1, text)
         IN  IF score > 0
             THEN <<[category |-> CATEGORY_KEYWORDS[i].category, score |-> score]>> \o rest
             ELSE rest

\* max over the items with >= where Python's max compares with >
RECURSIVE MaxByScoreLastWins(_, _)
MaxByScoreLastWins(items, best) ==
    IF items = <<>> THEN best.category
    ELSE MaxByScoreLastWins(Tail(items),
                            IF Head(items).score >= best.score THEN Head(items) ELSE best)

\* max(category_scores, key=category_scores.get): a later key replaces the
\* best so far only when its value is greater
RECURSIVE MaxByScore(_, _)
MaxByScore(items, best) ==
    IF items = <<>> THEN best.category
    ELSE MaxByScore(Tail(items),
                    IF Head(items).score > best.score THEN Head(items) ELSE best)

\* categorize_article(title, content)
CategorizeArticle(t, c) ==
    LET text == Lower(Combine(t, c))
        category_scores == CategoryScores(1, text)
    IN  IF category_scores # <<>>
        THEN MaxByScore(Tail(category_scores), Head(category_scores))
        ELSE "General"

\* pieces of text the arguments are put together from
Fragments ==
    {<<"P","a","k","i","s","t","a","n">>,
     <<"i">>,
     <<"t","e","c">>,
     <<"h">>,
     <<"c","r","i","c","k","e","t">>,
     <<"m","a","t","c","h">>,
     <<" ">>,
     <<"W","o","r","l","d"," ","c","u","p">>}

\* the strings made of at most n pieces
RECURSIVE Texts(_)
Texts(n) ==
    IF n = 0 THEN {<<>>}
    ELSE Texts(n - 1) \cup {s \o f : s \in Texts(n - 1), f \in Fragments}

\* a call of categorize_article with the same two arguments
CategorizeArticleCall ==
    /\ Len(returned) < MaxCategorizeCalls
    /\ returned' = Append(returned, CategorizeArticle(title, content))
    /\ UNCHANGED <<articles, clock, sessVars, cycleVars, mainVars, schedVars, title, content,
                   recentVars, linkVars, dateVars, queryVars, titleVars, cleanVars, statusVars>>

(***************************************************************************)
(* scraper.py: extract_article_links and is_valid_article_url              *)
(***************************************************************************)
\* selectors = [...]: each selector as a test on an anchor; an anchor is its
\* href and the markup around it
Selectors == <<"article a[href*=/]", ".story__link", "a[href*=/news/]", "a[href*=/story/]",
               ".media__item a", "h2 a", "h3 a">>

\* the netloc of DAWN_BASE_URL
BaseNetloc == <<"w","w","w",".","d","a","w","n",".","c","o","m">>

OtherNetloc == <<"e","x","a","m","p","l","e",".","c","o","m">>

\* an href that urljoin cannot split: it raises ValueError
BadNetloc == <<"[">>

\* a host of another domain whose name holds the name of the site
LookalikeNetloc == <<"d","a","w","n",".","c","o","m",".","e","v","i","l",".","i","o">>

\* a relative href has no netloc
NoNetloc == <<>>

HrefPaths == {<<>>, <<"/">>, <<"/","n","e","w","s","/","1">>, <<"/","n","e","w","s","/","2">>, <<"/","a","b","o","u","t">>}

\* the values of link.get('href') in the documents: relative references, the
\* absolute form of one of them, a link to another site, a malformed one
Hrefs ==
    [netloc : {NoNetloc}, path : HrefPaths]
      \cup {[netloc |-> BaseNetloc, path |-> <<"/","n","e","w","s","/","1">>],
            [netloc |-> OtherNetloc, path |-> <<"/","n","e","w","s","/","1">>],
            [netloc |-> LookalikeNetloc, path |-> <<"/","n","e","w","s","/","1">>],
            [netloc |-> BadNetloc, path |-> <<>>]}

\* the markup an anchor sits in
Contexts == {{}, {"article"}, {"h2"}, {"article", "h2"}}

Anchors == [href : Hrefs, context : Contexts]

\* the text pattern occurs in the href as written
HrefContains(href, pattern) ==
    \/ Occurs(pattern, href.path)
    \/ href.netloc # NoNetloc /\ pattern = <<"/">>

\* soup.select(selector) matches the anchor
Selects(i, anchor) ==
    CASE i = 1 -> "article" \in anchor.context /\ HrefContains(anchor.href, <<"/">>)
      [] i = 2 -> "story__link" \in anchor.context
      [] i = 3 -> HrefContains(anchor.href, <<"/","n","e","w","s","/">>)
      [] i = 4 -> HrefContains(anchor.href, <<"/","s","t","o","r","y","/">>)
      [] i = 5 -> "media__item" \in anchor.context
      [] i = 6 -> "h2" \in anchor.context
      [] i = 7 -> "h3" \in anchor.context

\* if href: a non-empty attribute value
HrefTruthy(href) == href.netloc # NoNetloc \/ href.path # <<>>

\* urljoin(self.base_url, href) raises
UrlJoinRaises(href) == href.netloc = BadNetloc

\* urljoin(self.base_url, href) when it does not raise
UrlJoin(href) ==
    IF href.netloc = NoNetloc
    THEN [netloc |-> BaseNetloc, path |-> href.path]
    ELSE href

\* excluded_paths
ExcludedPaths == <<
    \* /latest-news
    <<"/","l","a","t","e","s","t","-","n","e","w","s">>,
    \* /home
    <<"/","h","o","m","e">>,
    \* /opinion
    <<"/","o","p","i","n","i","o","n">>,
    \* /business
    <<"/","b","u","s","i","n","e","s","s">>,
    \* /sport
    <<"/","s","p","o","r","t">>,
    \* /world
    <<"/","w","o","r","l","d">>,
    \* /pakistan
    <<"/","p","a","k","i","s","t","a","n">>,
    \* /images
    <<"/","i","m","a","g","e","s">>,
    \* /videos
    <<"/","v","i","d","e","o","s">>,
    \* /search
    <<"/","s","e","a","r","c","h">>,
    \* /subscribe
    <<"/","s","u","b","s","c","r","i","b","e">>,
    \* /advertise
    <<"/","a","d","v","e","r","t","i","s","e">>,
    \* /contact
    <<"/","c","o","n","t","a","c","t">>,
    \* /about
    <<"/","a","b","o","u","t">>,
    \* /privacy
    <<"/","p","r","i","v","a","c","y">>,
    \* /terms
    <<"/","t","e","r","m","s">>,
    \* /cookies
    <<"/","c","o","o","k","i","e","s">>,
    \* /rss
    <<"/","r","s","s">>,
    \* /sitemap
    <<"/","s","i","t","e","m","a","p">>>>

\* path.startswith(prefix)
StartsWith(path, prefix) ==
    Len(path) >= Len(prefix) /\ SubSeq(path, 1, Len(prefix)) = prefix

\* is_valid_article_url(url)
IsValidArticleUrl(url) ==
    /\ Occurs(<<"d","a","w","n",".","c","o","m">>, url.netloc)
    /\ url.path # <<>>
    /\ url.path # <<"/">>
    /\ \A k \in 1..Len(ExcludedPaths) : ~StartsWith(url.path, ExcludedPaths[k])

\* the hrefs the two loops handle, in their order: per selector, the anchors
\* it selects in document order
RECURSIVE SelectedHrefs(_, _, _)
SelectedHrefs(doc, i, k) ==
    IF i > Len(Selectors) THEN <<>>
    ELSE IF k > Len(doc) THEN SelectedHrefs(doc, i + 1, 1)
    ELSE IF Selects(i, doc[k]) /\ HrefTruthy(doc[k].href)
         THEN <<doc[k].href>> \o SelectedHrefs(doc, i, k + 1)
         ELSE SelectedHrefs(doc, i, k + 1)

\* the list article_links after the loops: full urls, each appended unless
\* it is in the list already
RECURSIVE Collect(_, _)
Collect(hrefs, links) ==
    IF hrefs = <<>> THEN links
    ELSE LET full_url == UrlJoin(Head(hrefs))
         IN  Collect(Tail(hrefs),
                     IF \E n \in 1..Len(links) : links[n] = full_url
                     THEN links
                     ELSE Append(links, full_url))

\* [url for url in article_links if self.is_valid_article_url(url)]
RECURSIVE FilterValid(_)
FilterValid(links) ==
    IF links = <<>> THEN <<>>
    ELSE (IF IsValidArticleUrl(Head(links)) THEN <<Head(links)>> ELSE <<>>)
            \o FilterValid(Tail(links))

\* extract_article_links(soup): an exception anywhere in the loops is caught
\* by the outer except, which returns []
ExtractArticleLinks(doc) ==
    LET hrefs == SelectedHrefs(doc, 1, 1)
    IN  IF \E n \in 1..Len(hrefs) : UrlJoinRaises(hrefs[n])
        THEN <<>>
        ELSE FilterValid(Collect(hrefs, <<>>))

\* the listing documents
RECURSIVE Listings(_)
Listings(n) ==
    IF n = 0 THEN {<<>>}
    ELSE Listings(n - 1) \cup {Append(d, a) : d \in Listings(n - 1), a \in Anchors}

\* one call of extract_article_links
ExtractArticleLinksCall ==
    /\ extracted = <<>>
    /\ extracted' = <<ExtractArticleLinks(listing)>>
    /\ UNCHANGED <<articles, clock, sessVars, cycleVars, mainVars, schedVars, classVars,
                   recentVars, listing, dateVars, queryVars, titleVars, cleanVars, statusVars>>

(***************************************************************************)
(* scraper.py: parse_date                                                  *)
(***************************************************************************)
\* A date text is a sequence of tokens: a run of digits (its value and its
\* number of digits), a month name ("b" abbreviated, "B" in full, with the
\* number of the month), an AM/PM mark ("p": 0 for AM, 1 for PM) or one other
\* character. An argument that is no string has str = FALSE.
Num(v) == [t |-> "num", val |-> v, width |-> IF v < 10 THEN 1 ELSE IF v < 100 THEN 2 ELSE 4]

Sym(c) == [t |-> c, val |-> 0, width |-> 1]

Name(n, m) == [t |-> n, val |-> m, width |-> 3]

Text(k) == [str |-> TRUE, tokens |-> k]

NotAString == [str |-> FALSE, tokens |-> <<>>]

EmptyText == Text(<<>>)

\* what a call does: it returns a datetime, returns None, or raises
Value(y, m, d, h, mi, sec) ==
    [raised |-> "", none |-> FALSE, year |-> y, month |-> m, day |-> d, hour |-> h,
     minute |-> mi, second |-> sec]

ReturnsNone == [raised |-> "", none |-> TRUE]

Raises(e) == [raised |-> e, none |-> FALSE]

IsLeap(y) == (y % 4 = 0 /\ y % 100 # 0) \/ y % 400 = 0

DaysInMonth(y, m) ==
    IF m \in {4, 6, 9, 11} THEN 30
    ELSE IF m = 2 THEN (IF IsLeap(y) THEN 29 ELSE 28)
    ELSE 31

\* the arguments the datetime constructor accepts
ValidDate(y, m, d) ==
    /\ y \in 1..9999
    /\ m \in 1..12
    /\ d \in 1..DaysInMonth(y, m)

\* datetime(year, month, day, hour, minute, second): ValueError for a field out of range
DateTime(y, m, d, h, mi, sec) ==
    IF ValidDate(y, m, d) /\ h \in 0..23 /\ mi \in 0..59 /\ sec \in 0..59
    THEN Value(y, m, d, h, mi, sec)
    ELSE Raises("ValueError")

\* date_formats, each as its sequence of directives and literal characters
DateFormats ==
    << <<"d", " ", "b", ",", " ", "Y", " ", "I", ":", "M", "p">>,
       <<"d", " ", "B", ",", " ", "Y", " ", "I", ":", "M", "p">>,
       <<"d", " ", "b", " ", "Y", " ", "I", ":", "M", "p">>,
       <<"d", " ", "B", " ", "Y", " ", "I", ":", "M", "p">>,
       <<"Y", "-", "m", "-", "d", " ", "H", ":", "M", ":", "S">>,
       <<"d", "/", "m", "/", "Y", " ", "H", ":", "M">>,
       <<"d", "-", "m", "-", "Y", " ", "H", ":", "M">> >>

\* whether a token is what strptime accepts for a directive or a literal
Fits(tok, dir) ==
    CASE dir = "d" -> tok.t = "num" /\ tok.width <= 2 /\ tok.val \in 1..31
      [] dir = "m" -> tok.t = "num" /\ tok.width <= 2 /\ tok.val \in 1..12
      [] dir = "Y" -> tok.t = "num" /\ tok.width = 4
      [] dir = "H" -> tok.t = "num" /\ tok.width <= 2 /\ tok.val \in 0..23
      [] dir = "I" -> tok.t = "num" /\ tok.width <= 2 /\ tok.val \in 1..12
      [] dir = "M" -> tok.t = "num" /\ tok.width <= 2 /\ tok.val \in 0..59
      [] dir = "S" -> tok.t = "num" /\ tok.width <= 2 /\ tok.val \in 0..61
      [] OTHER -> tok.t = dir

\* the value strptime read for one of the directives, a default if the format has none
Field(k, shape, dirs, default) ==
    LET at == {i \in 1..Len(shape) : shape[i] \in dirs}
    IN  IF at = {} THEN default ELSE k[CHOOSE i \in at : TRUE].val

\* a number written in two digits
Padded(v) == [t |-> "num", val |-> v, width |-> 2]

\* the hour of the twelve-hour clock
TwelveHour(h) == ((h + 11) % 12) + 1

\* what a directive or a literal of a format writes for a datetime; numbers
\* below ten take two digits if pad, else one
WrittenField(v, dir, pad) ==
    LET number(n) == IF pad /\ n < 10 THEN Padded(n) ELSE Num(n)
    IN  CASE dir = "d" -> number(v.day)
          [] dir = "m" -> number(v.month)
          [] dir = "Y" -> Num(v.year)
          [] dir = "H" -> number(v.hour)
          [] dir = "I" -> number(TwelveHour(v.hour))
          [] dir = "M" -> number(v.minute)
          [] dir = "S" -> number(v.second)
          [] dir = "b" -> Name("b", v.month)
          [] dir = "B" -> Name("B", v.month)
          [] dir = "p" -> Name("p", IF v.hour >= 12 THEN 1 ELSE 0)
          [] OTHER -> Sym(dir)

Written(v, f, pad) == [i \in 1..Len(DateFormats[f]) |-> WrittenField(v, DateFormats[f][i], pad)]

\* datetime.strftime(date_format): every number in its full width
StrfTime(v, f) == Written(v, f, TRUE)

\* strptime that takes the hour of a twelve-hour format as it is written
StrpTimeHourAsWritten(text, f) ==
    IF ~text.str THEN Raises("TypeError")
    ELSE LET k == text.tokens
             shape == DateFormats[f]
             matches == /\ Len(k) = Len(shape)
                        /\ \A i \in 1..Len(shape) : Fits(k[i], shape[i])
         IN  IF ~matches THEN Raises("ValueError")
             ELSE DateTime(Field(k, shape, {"Y"}, 0), Field(k, shape, {"m", "b", "B"}, 0),
                           Field(k, shape, {"d"}, 0), Field(k, shape, {"H", "I"}, 0),
                           Field(k, shape, {"M"}, 0), Field(k, shape, {"S"}, 0))

\* datetime.strptime(date_text, date_format): TypeError for an argument that is
\* no string, ValueError for a text that does not match or is no date
StrpTime(text, f) ==
    IF ~text.str THEN Raises("TypeError")
    ELSE LET k == text.tokens
             shape == DateFormats[f]
             matches == /\ Len(k) = Len(shape)
                        /\ \A i \in 1..Len(shape) : Fits(k[i], shape[i])
             hour == IF "I" \in {shape[i] : i \in 1..Len(shape)}
                     THEN (Field(k, shape, {"I"}, 0) % 12) + 12 * Field(k, shape, {"p"}, 0)
                     ELSE Field(k, shape, {"H"}, 0)
         IN  IF ~matches THEN Raises("ValueError")
             ELSE DateTime(Field(k, shape, {"Y"}, 0), Field(k, shape, {"m", "b", "B"}, 0),
                           Field(k, shape, {"d"}, 0), hour, Field(k, shape, {"M"}, 0),
                           Field(k, shape, {"S"}, 0))

\* where (\d{1,2})[\/\-](\d{1,2})[\/\-](\d{4}) matches in the text: the token
\* that holds the day
PatternAt(k) ==
    {i \in 1..(Len(k) - 4) :
        /\ k[i].t = "num"
        /\ k[i + 1].t \in {"/", "-"}
        /\ k[i + 2].t = "num"
        /\ k[i + 2].width <= 2
        /\ k[i + 3].t \in {"/", "-"}
        /\ k[i + 4].t = "num"
        /\ k[i + 4].width >= 4}

\* re.search: the leftmost match; the day is the last two digits of its run
Search(k) ==
    LET i == CHOOSE j \in PatternAt(k) : \A o \in PatternAt(k) : j <= o
    IN  [day |-> k[i].val % 100, month |-> k[i + 2].val, year |-> k[i + 4].val]

\* the fallback after the loop over the formats
DateLikePattern(text) ==
    IF ~text.str THEN Raises("TypeError")
    ELSE IF PatternAt(text.tokens) # {}
         THEN LET g == Search(text.tokens)
              IN  DateTime(g.year, g.month, g.day, 0, 0, 0)
         ELSE ReturnsNone

\* the loop over date_formats from the f-th on: a ValueError moves on to the
\* next format, any other exception leaves the loop
RECURSIVE TryFormats(_, _)
TryFormats(text, f) ==
    IF f > Len(DateFormats) THEN DateLikePattern(text)
    ELSE LET r == StrpTime(text, f)
         IN  IF r.raised = "ValueError" THEN TryFormats(text, f + 1) ELSE r

\* parse_date without its "except Exception"
ParseDateUnguarded(text) == TryFormats(text, 1)

\* parse_date
ParseDate(text) ==
    LET r == TryFormats(text, 1)
    IN  IF r.raised # "" THEN ReturnsNone ELSE r

Years == {2023, 2024}

Separators == {"/", "-"}

ClockTime == <<Sym(" "), Num(10), Sym(":"), Num(30)>>

\* day, month and year joined by separators, with or without a time of day
NumericTexts ==
    {Text(<<Num(d), Sym(a), Num(m), Sym(b), Num(y)>> \o tail) :
        d \in 0..MaxDay, m \in 0..MaxMonth, y \in Years, a \in Separators, b \in Separators,
        tail \in {<<>>, ClockTime}}

IsoTexts ==
    {Text(<<Num(y), Sym("-"), Num(m), Sym("-"), Num(d)>> \o ClockTime \o <<Sym(":"), Num(0)>>) :
        d \in {1, 31}, m \in {4, 12}, y \in Years}

NamedTexts ==
    {Text(<<Num(d), Sym(" "), Name(n, m)>> \o comma \o <<Sym(" "), Num(y), Sym(" "), Num(h),
            Sym(":"), Num(30), Name("p", half)>>) :
        d \in {1, 31}, n \in {"b", "B"}, m \in {4, 12}, comma \in {<<>>, <<Sym(",")>>},
        y \in Years, h \in {12, 13}, half \in {0, 1}}

OtherTexts == {EmptyText, Text(<<Sym("x")>>), Text(<<Num(5)>>), NotAString}

DateTexts == NumericTexts \cup IsoTexts \cup NamedTexts \cup OtherTexts

\* the datetimes the written texts denote
WrittenValues ==
    {Value(y, m, d, h, mi, 0) :
        y \in Years, m \in {3, 4, 12}, d \in {5, 15, 31}, h \in {0, 9, 12, 15}, mi \in {5, 30}}

\* a datetime written in one of the formats, with or without leading zeros
WrittenTexts ==
    {Text(Written(v, f, pad)) : v \in WrittenValues, f \in 1..Len(DateFormats), pad \in BOOLEAN}

\* one attempt of the loop over date_formats, and the parsed datetime written
\* again in the same format
ParseAndRender ==
    /\ parsed = <<>>
    /\ LET r == StrpTime(date_text, date_format)
       IN  /\ parsed' = <<r>>
           /\ rendered' = IF r.raised = "" THEN <<StrfTime(r, date_format)>> ELSE <<>>
    /\ UNCHANGED <<articles, clock, sessVars, cycleVars, mainVars, schedVars, classVars,
                   recentVars, linkVars, date_text, date_format, queryVars, titleVars, cleanVars, statusVars>>

\* one call of parse_date
ParseDateCall ==
    /\ parsed = <<>>
    /\ parsed' = <<ParseDate(date_text)>>
    /\ UNCHANGED <<articles, clock, sessVars, cycleVars, mainVars, schedVars, classVars,
                   recentVars, linkVars, date_text, date_format, rendered, queryVars, titleVars, cleanVars, statusVars>>

(***************************************************************************)
(* main.py: the background polling loop                                    *)
(***************************************************************************)
Threads == 1..MaxThreads

\* a thread that was started and has not returned from background_scraper
Alive(t) == tpc[t] \in {"begin", "check", "cycle", "sleep", "backoff"}

\* start_background_scraper(): start a thread unless the flag is set
StartBackgroundScraper ==
    /\ active = "main"
    /\ IF ~scraper_running
       THEN /\ scraper_thread < MaxThreads
            /\ scraper_thread' = scraper_thread + 1
            /\ tpc' = [tpc EXCEPT ![scraper_thread + 1] = "begin"]
       ELSE UNCHANGED <<scraper_thread, tpc>>
    /\ stop_requested' = FALSE
    /\ UNCHANGED <<articles, clock, sessVars, cycleVars, schedVars, scraper_running, failures>>
    /\ UNCHANGED <<pureVars, statusVars>>

\* stop_background_scraper(): clear the flag
StopBackgroundScraper ==
    /\ active = "main"
    /\ scraper_running' = FALSE
    /\ stop_requested' = TRUE
    /\ UNCHANGED <<articles, clock, sessVars, cycleVars, schedVars, scraper_thread, tpc, failures>>
    /\ UNCHANGED <<pureVars, statusVars>>

\* background_scraper: scraper_running = True
ThreadBegin(t) ==
    /\ tpc[t] = "begin"
    /\ scraper_running' = TRUE
    /\ tpc' = [tpc EXCEPT ![t] = "check"]
    /\ UNCHANGED <<articles, clock, sessVars, cycleVars, schedVars, scraper_thread, failures,
                   stop_requested>>
    /\ UNCHANGED <<pureVars, statusVars>>

\* background_scraper: while scraper_running
LoopCheck(t) ==
    /\ tpc[t] = "check"
    /\ tpc' = [tpc EXCEPT ![t] = IF scraper_running THEN "cycle" ELSE "exited"]
    /\ UNCHANGED <<articles, clock, sessVars, cycleVars, schedVars, scraper_running,
                   scraper_thread, failures, stop_requested>>
    /\ UNCHANGED <<pureVars, statusVars>>

\* OnCycleError with the try around the loop instead of inside it
OnCycleErrorLeavesLoop(t) ==
    /\ tpc' = [tpc EXCEPT ![t] = "exited"]
    /\ failures' = [failures EXCEPT ![t] = @ + 1]

\* background_scraper: except Exception inside the loop, then time.sleep(60)
OnCycleError(t) ==
    /\ tpc' = [tpc EXCEPT ![t] = "backoff"]
    /\ failures' = [failures EXCEPT ![t] = @ + 1]

\* background_scraper: the try block, one cycle; it raises or runs through to
\* time.sleep(wait_time)
RunCycle(t) ==
    /\ tpc[t] = "cycle"
    /\ \/ /\ failures[t] < MaxFailures
          /\ OnCycleError(t)
       \/ /\ tpc' = [tpc EXCEPT ![t] = "sleep"]
          /\ failures' = [failures EXCEPT ![t] = 0]
    /\ last_cycle' = <<clock>>
    /\ UNCHANGED <<articles, clock, sessVars, cycleVars, schedVars, scraper_running,
                   scraper_thread, stop_requested>>
    /\ UNCHANGED <<pureVars, response>>

\* background_scraper: one pass of the try block on a site whose listing page
\* answers or not; scrape_latest_articles returns [] for a listing that cannot
\* be fetched, and an exception of any other step takes the except branch
RunCycleFetching(t) ==
    /\ tpc[t] = "cycle"
    /\ soup' \in BOOLEAN
    /\ \/ /\ failures[t] < MaxFailures
          /\ OnCycleError(t)
       \/ /\ tpc' = [tpc EXCEPT ![t] = "sleep"]
          /\ failures' = [failures EXCEPT ![t] = 0]
    /\ last_cycle' = <<clock>>
    /\ UNCHANGED <<articles, clock, sessVars, schedVars, scraper_running,
                   scraper_thread, stop_requested>>
    /\ UNCHANGED <<web_pages, cpc, kind, max_articles, article_links, scraped,
                   saved_count, save_idx, stats, fetched, offered, initial_count, cycles,
                   added, causes, previous>>
    /\ UNCHANGED <<pureVars, response>>

\* wait_time
WaitTime == 120

\* the time.sleep of the except branch
RetryTime == 60

\* the seconds a thread sleeps at a place of the loop
SleepSeconds(place) == IF place = "backoff" THEN RetryTime ELSE WaitTime

\* background_scraper: time.sleep returns
SleepDone(t) ==
    /\ tpc[t] \in {"sleep", "backoff"}
    /\ tpc' = [tpc EXCEPT ![t] = "check"]
    /\ UNCHANGED <<articles, clock, sessVars, cycleVars, schedVars, scraper_running,
                   scraper_thread, failures, stop_requested>>
    /\ UNCHANGED <<pureVars, statusVars>>

\* a step of thread t
ThreadStep(t) == ThreadBegin(t) \/ LoopCheck(t) \/ RunCycle(t) \/ SleepDone(t)

(***************************************************************************)
(* scheduler.py: ScrapingScheduler                                         *)
(***************************************************************************)
\* a thread that was started and has not returned from _run_scheduler
SchedAlive(t) == spc[t] \in {"check", "pending", "sleep"}

\* start_scheduler(): return when is_running; else set up the schedule, set
\* the flag, clear the event and start a thread
StartScheduler ==
    /\ active = "scheduler"
    /\ caller = "idle"
    /\ IF is_running
       THEN UNCHANGED <<is_running, stop_event, scheduler_thread, spc, jobs>>
       ELSE /\ scheduler_thread < MaxThreads
            /\ jobs' = TRUE
            /\ is_running' = TRUE
            /\ stop_event' = FALSE
            /\ scheduler_thread' = scheduler_thread + 1
            /\ spc' = [spc EXCEPT ![scheduler_thread + 1] = "check"]
    /\ stop_requested' = FALSE
    /\ UNCHANGED <<articles, clock, sessVars, cycleVars, scraper_running,
                   scraper_thread, tpc, failures, job_failures, caller, active>>
    /\ UNCHANGED <<pureVars, statusVars>>

\* stop_scheduler(): return when not is_running; else clear the flag, set the
\* event and join the thread for at most five seconds
StopScheduler ==
    /\ active = "scheduler"
    /\ caller = "idle"
    /\ IF is_running
       THEN /\ is_running' = FALSE
            /\ stop_event' = TRUE
            /\ caller' = "joining"
       ELSE UNCHANGED <<is_running, stop_event, caller>>
    /\ stop_requested' = TRUE
    /\ UNCHANGED <<articles, clock, sessVars, cycleVars, scraper_running,
                   scraper_thread, tpc, failures, scheduler_thread, spc, jobs,
                   job_failures, active>>
    /\ UNCHANGED <<pureVars, statusVars>>

\* stop_scheduler(): the join returns, because the thread ended or because the
\* five seconds passed; then schedule.clear()
JoinReturns ==
    /\ caller = "joining"
    /\ jobs' = FALSE
    /\ caller' = "idle"
    /\ UNCHANGED <<articles, clock, sessVars, cycleVars, mainVars, is_running,
                   stop_event, scheduler_thread, spc, job_failures, active>>
    /\ UNCHANGED <<pureVars, statusVars>>

\* _run_scheduler: while self.is_running and not self.stop_event.is_set()
SchedLoopCheck(t) ==
    /\ spc[t] = "check"
    /\ spc' = [spc EXCEPT ![t] =
                  IF is_running /\ ~stop_event THEN "pending" ELSE "exited"]
    /\ UNCHANGED <<articles, clock, sessVars, cycleVars, mainVars, is_running,
                   stop_event, scheduler_thread, jobs, job_failures, caller, active>>
    /\ UNCHANGED <<pureVars, statusVars>>

\* _run_scheduler: schedule.run_pending(); no job is due, or scraping_job runs
\* and ends well, or it fails and logs the error itself; then time.sleep(60)
RunPending(t) ==
    /\ spc[t] = "pending"
    /\ \/ UNCHANGED <<job_failures, last_cycle>>
       \/ /\ jobs
          /\ job_failures' = [job_failures EXCEPT ![t] = 0]
          /\ last_cycle' = <<clock>>
       \/ /\ jobs
          /\ job_failures[t] < MaxFailures
          /\ job_failures' = [job_failures EXCEPT ![t] = @ + 1]
          /\ last_cycle' = <<clock>>
    /\ spc' = [spc EXCEPT ![t] = "sleep"]
    /\ UNCHANGED <<articles, clock, sessVars, cycleVars, mainVars, is_running,
                   stop_event, scheduler_thread, jobs, caller, active>>
    /\ UNCHANGED <<pureVars, response>>

\* _run_scheduler: time.sleep(60) returns
SchedSleepDone(t) ==
    /\ spc[t] = "sleep"
    /\ spc' = [spc EXCEPT ![t] = "check"]
    /\ UNCHANGED <<articles, clock, sessVars, cycleVars, mainVars, is_running,
                   stop_event, scheduler_thread, jobs, job_failures, caller, active>>
    /\ UNCHANGED <<pureVars, statusVars>>

\* a step of scheduler thread t
SchedThreadStep(t) == SchedLoopCheck(t) \/ RunPending(t) \/ SchedSleepDone(t)

(***************************************************************************)
(* main.py, scheduler.py: status queries and the manual run                *)
(***************************************************************************)

\* no request was answered yet
NoResponse == [request |-> "none"]

\* main.py: scraper_thread.is_alive() if scraper_thread else False
ScraperThreadAlive == IF scraper_thread # 0 THEN Alive(scraper_thread) ELSE FALSE

\* scheduler.py is_scheduler_running:
\* self.is_running and self.scheduler_thread and self.scheduler_thread.is_alive()
IsSchedulerRunning ==
    /\ is_running
    /\ scheduler_thread # 0
    /\ SchedAlive(scheduler_thread)

\* main.py get_scraper_status: the dict it returns
ScraperStatus ==
    [request |-> "get_scraper_status",
     scraper_running |-> scraper_running,
     scraper_thread_alive |-> ScraperThreadAlive,
     status |-> IF scraper_running THEN "running" ELSE "stopped",
     timestamp |-> clock]

\* scheduler.py get_scheduler_status: the dict it returns; next_runs has an
\* entry exactly when the schedule module holds the jobs
SchedulerStatus ==
    [request |-> "get_scheduler_status",
     is_running |-> IsSchedulerRunning,
     max_articles |-> BackgroundMaxArticles,
     next_runs |-> jobs,
     timestamp |-> clock]

\* main.py run_scraper_now: the dict it returns for the cycle it ran
RunNowResult(n, k) ==
    [request |-> "run_scraper_now",
     articles_scraped |-> n,
     articles_saved |-> k,
     status |-> "completed",
     timestamp |-> clock]

\* GET /scraper/status
GetScraperStatus ==
    /\ active = "main"
    /\ response' = ScraperStatus
    /\ UNCHANGED <<articles, clock, sessVars, cycleVars, mainVars, schedVars, pureVars,
                   last_cycle>>

\* get_scheduler_status()
GetSchedulerStatus ==
    /\ active = "scheduler"
    /\ response' = SchedulerStatus
    /\ UNCHANGED <<articles, clock, sessVars, cycleVars, mainVars, schedVars, pureVars,
                   last_cycle>>

\* a manual run that also clears the flag of the loop
RunScraperNowPausesLoop ==
    /\ active = "main"
    /\ web_pages = <<>>
    /\ response' = RunNowResult(0, 0)
    /\ scraper_running' = FALSE
    /\ UNCHANGED <<articles, clock, sessVars, cycleVars, scraper_thread, tpc, failures,
                   stop_requested, schedVars, pureVars, last_cycle>>

\* POST /scraper/run against a site that lists nothing: the cycle it runs in
\* the request scrapes no article and saves none
RunScraperNow ==
    /\ active = "main"
    /\ web_pages = <<>>
    /\ response' = RunNowResult(Len(web_pages), 0)
    /\ UNCHANGED <<articles, clock, sessVars, cycleVars, mainVars, schedVars, pureVars,
                   last_cycle>>

(***************************************************************************)
(* scraper.py: extract_article_content, the title                          *)
(***************************************************************************)
\* An element of the page is its tag, its class and its text.
ElementTags == {"h1", "div"}

ElementClasses == {"", "story__title", "story__headline"}

\* texts of elements: empty, blank, or a headline with blanks around it
ElementTexts == {<<>>, <<" ">>, <<"A">>, <<" ", "B", " ">>}

Elements == [tag : ElementTags, class : ElementClasses, text : ElementTexts]

\* title_selectors, in the order of the list
TitleSelectors ==
    << [tag |-> "h1", class |-> "story__title"],
       [tag |-> "h1", class |-> "media__title"],
       [tag |-> "h1", class |-> ""],
       [tag |-> "", class |-> "story__headline"],
       [tag |-> "", class |-> "media__headline"] >>

\* whether a CSS selector of the list matches an element
SelectorMatches(sel, e) ==
    /\ sel.tag # "" => e.tag = sel.tag
    /\ sel.class # "" => e.class = sel.class

\* soup.select_one(selector): the position of the first match, 0 for None
SelectOne(page, sel) ==
    LET at == {i \in 1..Len(page) : SelectorMatches(sel, page[i])}
    IN  IF at = {} THEN 0 ELSE CHOOSE i \in at : \A j \in at : i <= j

\* str.strip of a text
RECURSIVE StripLeft(_)
StripLeft(text) ==
    IF text # <<>> /\ Head(text) = " " THEN StripLeft(Tail(text)) ELSE text

RECURSIVE StripRight(_)
StripRight(text) ==
    IF text # <<>> /\ text[Len(text)] = " "
    THEN StripRight(SubSeq(text, 1, Len(text) - 1))
    ELSE text

Strip(text) == StripRight(StripLeft(text))

\* the loop over title_selectors from the k-th on: the text of the first
\* selector that matches an element, '' if none matches
RECURSIVE TitleFrom(_, _)
TitleFrom(page, k) ==
    IF k > Len(TitleSelectors) THEN <<>>
    ELSE LET i == SelectOne(page, TitleSelectors[k])
         IN  IF i # 0 THEN Strip(page[i].text) ELSE TitleFrom(page, k + 1)

RECURSIVE ArticlePages(_)
ArticlePages(n) ==
    IF n = 0 THEN {<<>>}
    ELSE ArticlePages(n - 1) \cup {Append(d, e) : d \in ArticlePages(n - 1), e \in Elements}

\* one call of extract_article_content, as far as the title goes
ExtractTitleCall ==
    /\ extracted_title = <<>>
    /\ extracted_title' = <<TitleFrom(article_page, 1)>>
    /\ UNCHANGED <<articles, clock, sessVars, cycleVars, mainVars, schedVars, classVars,
                   recentVars, linkVars, dateVars, queryVars, article_page, cleanVars,
                   statusVars>>

(***************************************************************************)
(* scraper.py: clean_content                                               *)
(***************************************************************************)
\* A content is a sequence of tokens: a blank, a newline, a dot, a digit, or
\* a word; letters of either case are one token, as re.IGNORECASE reads them.
WhitespaceTokens == {" ", "\n"}

DigitTokens == {"1"}

\* \w matches every token that is no whitespace and no dot
IsWordToken(c) == c \notin WhitespaceTokens /\ c # "."

\* unwanted_patterns, in the order of the list; "\\d+", "\\w+" and ".*" are the
\* operators of the regular expressions, every other item a literal
UnwantedPatterns ==
    << <<"Published", " ", "\\d+", " ", "\\w+", " ", "\\d+">>,
       <<"Updated", " ", "\\d+", " ", "\\w+", " ", "\\d+">>,
       <<"Last", " ", "Updated", " ", "\\d+", " ", "\\w+", " ", "\\d+">>,
       <<"Follow", " ", "Dawn", ".", "com", " ", "on", ".*">>,
       <<"Read", " ", "more", ".*">>,
       <<"Advertisement", ".*">>,
       <<"Sponsored", ".*">> >>

\* the length of the longest run of tokens of a class from position i on
RECURSIVE RunLength(_, _, _)
RunLength(text, i, digits) ==
    IF i > Len(text) THEN 0
    ELSE IF (digits /\ text[i] \in DigitTokens) \/ (~digits /\ IsWordToken(text[i]))
         THEN 1 + RunLength(text, i + 1, digits)
         ELSE 0

\* re.match of the items of a pattern from the k-th on at position i: the
\* position after the match, 0 if there is none; a run is taken as long as
\* possible and shortened while the rest of the pattern does not match
RECURSIVE MatchFrom(_, _, _, _)
RECURSIVE MatchRun(_, _, _, _, _)
MatchFrom(text, i, pattern, k) ==
    IF k > Len(pattern) THEN i
    ELSE CASE pattern[k] = ".*" -> MatchFrom(text, Len(text) + 1, pattern, k + 1)
           [] pattern[k] = "\\d+" -> MatchRun(text, i, RunLength(text, i, TRUE), pattern, k)
           [] pattern[k] = "\\w+" -> MatchRun(text, i, RunLength(text, i, FALSE), pattern, k)
           [] OTHER -> IF i <= Len(text) /\ text[i] = pattern[k]
                       THEN MatchFrom(text, i + 1, pattern, k + 1)
                       ELSE 0

MatchRun(text, i, n, pattern, k) ==
    IF n = 0 THEN 0
    ELSE LET end == MatchFrom(text, i + n, pattern, k + 1)
         IN  IF end # 0 THEN end ELSE MatchRun(text, i, n - 1, pattern, k)

\* re.sub(pattern, '', content) from position i on
RECURSIVE RemoveFrom(_, _, _)
RemoveFrom(text, i, pattern) ==
    IF i > Len(text) THEN <<>>
    ELSE LET end == MatchFrom(text, i, pattern, 1)
         IN  IF end # 0 THEN RemoveFrom(text, end, pattern)
             ELSE <<text[i]>> \o RemoveFrom(text, i + 1, pattern)

\* the loop over unwanted_patterns from the k-th on
RECURSIVE RemoveUnwanted(_, _)
RemoveUnwanted(text, k) ==
    IF k > Len(UnwantedPatterns) THEN text
    ELSE RemoveUnwanted(RemoveFrom(text, 1, UnwantedPatterns[k]), k + 1)

\* re.sub(r'\s+', ' ', content)
RECURSIVE CollapseWhitespace(_)
CollapseWhitespace(text) ==
    IF text = <<>> THEN <<>>
    ELSE IF Head(text) \in WhitespaceTokens
         THEN IF Len(text) > 1 /\ text[2] \in WhitespaceTokens
              THEN CollapseWhitespace(Tail(text))
              ELSE <<" ">> \o CollapseWhitespace(Tail(text))
         ELSE <<Head(text)>> \o CollapseWhitespace(Tail(text))

\* clean_content
CleanContent(text) == Strip(RemoveUnwanted(CollapseWhitespace(text), 1))

\* the pieces contents are made of
ContentPieces ==
    {<<"a">>, <<" ">>, <<"\n">>, <<"Published", " ", "1", " ", "a", " ", "1">>,
     <<"Read", " ", "more">>}

RECURSIVE Contents(_)
Contents(n) ==
    IF n = 0 THEN {<<>>}
    ELSE Contents(n - 1) \cup {c \o piece : c \in Contents(n - 1), piece \in ContentPieces}

\* one call of clean_content
CleanContentCall ==
    /\ cleaned = <<>>
    /\ cleaned' = <<CleanContent(raw_content)>>
    /\ UNCHANGED <<articles, clock, sessVars, cycleVars, mainVars, schedVars, classVars,
                   recentVars, linkVars, dateVars, queryVars, titleVars, raw_content,
                   statusVars>>

(***************************************************************************)
(* database.py: the read operations                                        *)
(***************************************************************************)
\* titles, contents and search queries, one character per element; LIKE of
\* SQLite does not tell the case of a letter, so one case stands for both
StoredTitles == {<<"a">>, <<"a", "b">>, <<"_">>}

StoredContents == {<<"b">>, <<"a", "_", "b">>}

StoredCategories == {"Sports", "General"}

SearchQueries == {<<>>, <<"a">>, <<"b">>, <<"_">>, <<"b", "a">>}

Last(seq) == seq[Len(seq)]

\* the tables of at most n rows add_article can have built: ids count up,
\* titles are unique, scraped_at (default=datetime.utcnow) does not decrease
RECURSIVE Tables(_)
Tables(n) ==
    IF n = 0 THEN {<<>>}
    ELSE Tables(n - 1) \cup
         {Append(tb, [id |-> Len(tb) + 1, title |-> ti, url |-> NullUrl, scraped_at |-> at,
                      content |-> co, category |-> ca]) :
             tb \in {x \in Tables(n - 1) : Len(x) = n - 1},
             ti \in StoredTitles, co \in StoredContents, ca \in StoredCategories,
             at \in 0..MaxClock}

WellFormedTable(tb) ==
    /\ \A i, j \in 1..Len(tb) : tb[i].title = tb[j].title => i = j
    /\ \A i \in 1..(Len(tb) - 1) : tb[i].scraped_at <= tb[i + 1].scraped_at

\* SQL LIKE: % stands for any run of characters, _ for any one character
RECURSIVE Like(_, _)
Like(text, pattern) ==
    IF pattern = <<>> THEN text = <<>>
    ELSE IF Head(pattern) = "%"
         THEN Like(text, Tail(pattern)) \/ (text # <<>> /\ Like(Tail(text), pattern))
         ELSE /\ text # <<>>
              /\ Head(pattern) = "_" \/ Head(pattern) = Head(text)
              /\ Like(Tail(text), Tail(pattern))

\* Column.contains(other): column LIKE '%' || other || '%', other not escaped
ColumnContains(column, other) == Like(column, <<"%">> \o other \o <<"%">>)

\* search_pattern = f"%{query}%"
SearchPattern(query) == <<"%">> \o query \o <<"%">>

\* the rows a filter lets through
Filtered(op, category, query) ==
    {articles[i] : i \in {j \in 1..Len(articles) :
        CASE op = "get_all_articles" -> TRUE
          [] op = "get_articles_by_category" -> articles[j].category = category
          [] OTHER -> \/ ColumnContains(articles[j].title, SearchPattern(query))
                      \/ ColumnContains(articles[j].content, SearchPattern(query))}}

\* order_by(Article.scraped_at.desc()): the orders the database may answer in;
\* rows of equal scraped_at come in any order
OrderByScrapedAtDesc(rows) ==
    {o \in [1..Cardinality(rows) -> rows] :
        /\ \A i, j \in 1..Cardinality(rows) : o[i] = o[j] => i = j
        /\ \A i \in 1..(Cardinality(rows) - 1) : o[i].scraped_at >= o[i + 1].scraped_at}

\* offset(skip).limit(limit)
OffsetLimit(o, skip, limit) ==
    SubSeq(o, skip + 1, IF skip + limit < Len(o) THEN skip + limit ELSE Len(o))

NoQuery == [op |-> "none", category |-> "", query |-> <<>>, skip |-> 0, limit |-> 0]

NoRows == [failed |-> FALSE, rows |-> <<>>]

\* one read operation: the rows of the query, or [] when the database raised
ReadOperation(op, category, query, skip, limit) ==
    /\ query_args = NoQuery
    /\ query_args' = [op |-> op, category |-> category, query |-> query, skip |-> skip,
                      limit |-> limit]
    /\ \/ \E o \in OrderByScrapedAtDesc(Filtered(op, category, query)) :
              query_result' = [failed |-> FALSE, rows |-> OffsetLimit(o, skip, limit)]
       \/ query_result' = [failed |-> TRUE, rows |-> <<>>]
    /\ UNCHANGED <<articles, clock, sessVars, cycleVars, mainVars, schedVars, classVars,
                   recentVars, linkVars, dateVars, titleVars, cleanVars, statusVars>>

GetAllArticles ==
    \E skip \in 0..MaxPage, limit \in 0..MaxPage :
        ReadOperation("get_all_articles", "", <<>>, skip, limit)

GetArticlesByCategory ==
    \E category \in StoredCategories, skip \in 0..MaxPage, limit \in 0..MaxPage :
        ReadOperation("get_articles_by_category", category, <<>>, skip, limit)

SearchArticles ==
    \E query \in SearchQueries, skip \in 0..MaxPage, limit \in 0..MaxPage :
        ReadOperation("search_articles", "", query, skip, limit)

(***************************************************************************)
(* Specifications                                                          *)
(***************************************************************************)
StoreInit ==
    /\ articles = <<>>
    /\ clock = 0
    /\ pc = [s \in Sessions |-> "idle"]
    /\ article_data = [s \in Sessions |-> NoData]
    /\ existing_article = [s \in Sessions |-> NoArticle]
    /\ article = [s \in Sessions |-> NoArticle]
    /\ calls = 0

\* no cycle has run
CycleInit ==
    /\ cpc = "idle"
    /\ kind = "job"
    /\ max_articles = 0
    /\ soup = FALSE
    /\ article_links = <<>>
    /\ scraped = <<>>
    /\ saved_count = 0
    /\ save_idx = 0
    /\ stats = NoStats
    /\ fetched = <<>>
    /\ offered = <<>>
    /\ initial_count = 0
    /\ cycles = 0
    /\ added = <<>>
    /\ causes = <<>>
    /\ previous = FALSE

\* main.py as imported: no thread, the flag unset
MainInit ==
    /\ scraper_running = FALSE
    /\ scraper_thread = 0
    /\ tpc = [t \in Threads |-> "unborn"]
    /\ failures = [t \in Threads |-> 0]
    /\ stop_requested = FALSE

\* ScrapingScheduler.__init__
SchedInit ==
    /\ is_running = FALSE
    /\ stop_event = FALSE
    /\ scheduler_thread = 0
    /\ spc = [t \in Threads |-> "unborn"]
    /\ jobs = FALSE
    /\ job_failures = [t \in Threads |-> 0]
    /\ caller = "idle"

\* no request was answered and no cycle of a loop has begun
StatusInit ==
    /\ response = NoResponse
    /\ last_cycle = <<>>

\* no read operation was called
QueryInit ==
    /\ query_args = NoQuery
    /\ query_result = NoRows

\* extract_article_content was not called
TitleInit ==
    /\ article_page = <<>>
    /\ extracted_title = <<>>

\* clean_content was not called
CleanInit ==
    /\ raw_content = <<>>
    /\ cleaned = <<>>

\* parse_date was not called
DateInit ==
    /\ date_text = EmptyText
    /\ parsed = <<>>
    /\ date_format = 1
    /\ rendered = <<>>

\* extract_article_links was not called
LinkInit ==
    /\ listing = <<>>
    /\ extracted = <<>>

\* is_recent_article was not called
RecentInit ==
    /\ published_date = NoDate
    /\ is_recent = <<>>

\* categorize_article was not called
ClassInit ==
    /\ title = <<>>
    /\ content = <<>>
    /\ returned = <<>>

\* sessions calling add_article concurrently on an empty table
Init ==
    /\ StoreInit
    /\ CycleInit
    /\ MainInit
    /\ SchedInit
    /\ StatusInit
    /\ QueryInit
    /\ TitleInit
    /\ CleanInit
    /\ DateInit
    /\ ClassInit
    /\ RecentInit
    /\ LinkInit
    /\ active = "main"
    /\ web_pages = <<>>

\* the writers' steps; no step reads the clock, which advances in the
\* specifications of the status queries
Next ==
    \/ \E s \in Sessions : AddArticleCall(s)
    \/ \E s \in Sessions : AddArticleCheckTitle(s)
    \/ \E s \in Sessions : AddArticleCheckUrl(s)
    \/ \E s \in Sessions : AddArticleInsert(s)

Spec == Init /\ [][Next]_vars

\* cycles run one after the other against a site that does not change
InitCycle ==
    /\ StoreInit
    /\ CycleInit
    /\ MainInit
    /\ SchedInit
    /\ StatusInit
    /\ QueryInit
    /\ TitleInit
    /\ CleanInit
    /\ DateInit
    /\ ClassInit
    /\ RecentInit
    /\ LinkInit
    /\ active = "main"
    /\ \E n \in 0..MaxLinks : web_pages \in [1..n -> Pages]

NextCycle ==
    \/ CycleStart
    \/ FetchListing
    \/ ScrapeNextArticle
    \/ SaveNextArticle
    \/ CycleReturn

SpecCycle == InitCycle /\ [][NextCycle]_vars

\* the pages of the sites the cycles with a failing database run against: one
\* that does not fetch, one with too short a content, two valid ones
FaultPages ==
    {FetchFailed,
     [ok |-> TRUE, title |-> "t1", content_len |-> MinContentLength - 1,
      published_date |-> NoDate],
     [ok |-> TRUE, title |-> "t1", content_len |-> MinContentLength,
      published_date |-> NoDate],
     [ok |-> TRUE, title |-> "t2", content_len |-> MinContentLength,
      published_date |-> NoDate]}

InitCycleFaults ==
    /\ StoreInit
    /\ CycleInit
    /\ MainInit
    /\ SchedInit
    /\ StatusInit
    /\ QueryInit
    /\ TitleInit
    /\ CleanInit
    /\ DateInit
    /\ ClassInit
    /\ RecentInit
    /\ LinkInit
    /\ active = "main"
    /\ \E n \in 0..MaxLinks : web_pages \in [1..n -> FaultPages]

\* the same cycles with a database that can fail on any record
NextCycleFaults ==
    \/ CycleStart
    \/ FetchListing
    \/ ScrapeNextArticle
    \/ SaveNextArticle
    \/ SaveNextArticleFails
    \/ CycleReturn

SpecCycleFaults == InitCycleFaults /\ [][NextCycleFaults]_vars

\* the published dates scrape_article can store: None, or the datetime
\* parse_date returned
DatesOfPages == {NoDate} \cup [type : {"datetime"}, at : {0, MaxSkew}, fmt : {OtherFormat}]

\* valid pages with and without a date
DatedPages ==
    [ok : {TRUE}, title : {"t1", "t2"}, content_len : {MinContentLength},
     published_date : DatesOfPages]

\* cycles over pages with dates, at a time when a date is ten minutes old or
\* a few seconds less
InitCycleRecency ==
    /\ articles = <<>>
    /\ clock = RecentSeconds
    /\ pc = [s \in Sessions |-> "idle"]
    /\ article_data = [s \in Sessions |-> NoData]
    /\ existing_article = [s \in Sessions |-> NoArticle]
    /\ article = [s \in Sessions |-> NoArticle]
    /\ calls = 0
    /\ CycleInit
    /\ MainInit
    /\ SchedInit
    /\ StatusInit
    /\ QueryInit
    /\ TitleInit
    /\ CleanInit
    /\ DateInit
    /\ ClassInit
    /\ RecentInit
    /\ LinkInit
    /\ active = "main"
    /\ \E n \in 0..MaxLinks : web_pages \in [1..n -> DatedPages]

SpecCycleRecency == InitCycleRecency /\ [][NextCycle]_vars

\* start and stop requests arrive at any time while the loop threads run; a
\* thread that can take a step eventually takes it
InitSched ==
    /\ StoreInit
    /\ CycleInit
    /\ MainInit
    /\ SchedInit
    /\ StatusInit
    /\ QueryInit
    /\ TitleInit
    /\ CleanInit
    /\ DateInit
    /\ ClassInit
    /\ RecentInit
    /\ LinkInit
    /\ web_pages = <<>>
    /\ active \in {"main", "scheduler"}

NextSched ==
    \/ StartBackgroundScraper
    \/ StopBackgroundScraper
    \/ \E t \in Threads : ThreadBegin(t)
    \/ \E t \in Threads : LoopCheck(t)
    \/ \E t \in Threads : RunCycle(t)
    \/ \E t \in Threads : SleepDone(t)
    \/ StartScheduler
    \/ StopScheduler
    \/ JoinReturns
    \/ \E t \in Threads : SchedLoopCheck(t)
    \/ \E t \in Threads : RunPending(t)
    \/ \E t \in Threads : SchedSleepDone(t)

FairSched ==
    /\ InitSched
    /\ [][NextSched]_vars
    /\ \A t \in Threads : WF_vars(ThreadStep(t))
    /\ \A t \in Threads : WF_vars(SchedThreadStep(t))
    /\ WF_vars(JoinReturns)

\* the loops with status queries and manual runs arriving at any time
NextStatus ==
    \/ StartBackgroundScraper
    \/ StopBackgroundScraper
    \/ \E t \in Threads : ThreadBegin(t)
    \/ \E t \in Threads : LoopCheck(t)
    \/ \E t \in Threads : RunCycle(t)
    \/ \E t \in Threads : SleepDone(t)
    \/ StartScheduler
    \/ StopScheduler
    \/ JoinReturns
    \/ \E t \in Threads : SchedLoopCheck(t)
    \/ \E t \in Threads : RunPending(t)
    \/ \E t \in Threads : SchedSleepDone(t)
    \/ GetScraperStatus
    \/ GetSchedulerStatus
    \/ RunScraperNow

SpecStatus == InitSched /\ [][NextStatus]_vars

\* the same while time passes
NextStatusClock ==
    \/ NextStatus
    \/ Tick

SpecStatusClock == InitSched /\ [][NextStatusClock]_vars

\* parse_date called once on a date text
InitDate ==
    /\ StoreInit
    /\ CycleInit
    /\ MainInit
    /\ SchedInit
    /\ StatusInit
    /\ QueryInit
    /\ TitleInit
    /\ CleanInit
    /\ ClassInit
    /\ RecentInit
    /\ LinkInit
    /\ active = "main"
    /\ web_pages = <<>>
    /\ date_text \in DateTexts
    /\ parsed = <<>>
    /\ date_format = 1
    /\ rendered = <<>>

NextDate == ParseDateCall

SpecDate == InitDate /\ [][NextDate]_vars

\* a written date tried under one of the formats
InitRoundTrip ==
    /\ StoreInit
    /\ CycleInit
    /\ MainInit
    /\ SchedInit
    /\ StatusInit
    /\ QueryInit
    /\ TitleInit
    /\ CleanInit
    /\ ClassInit
    /\ RecentInit
    /\ LinkInit
    /\ active = "main"
    /\ web_pages = <<>>
    /\ date_text \in WrittenTexts
    /\ date_format \in 1..Len(DateFormats)
    /\ parsed = <<>>
    /\ rendered = <<>>

NextRoundTrip == ParseAndRender

SpecRoundTrip == InitRoundTrip /\ [][NextRoundTrip]_vars

\* one read operation on a table that add_article has built
InitQueries ==
    /\ articles \in {tb \in Tables(MaxRows) : WellFormedTable(tb)}
    /\ clock = MaxClock
    /\ pc = [s \in Sessions |-> "idle"]
    /\ article_data = [s \in Sessions |-> NoData]
    /\ existing_article = [s \in Sessions |-> NoArticle]
    /\ article = [s \in Sessions |-> NoArticle]
    /\ calls = 0
    /\ CycleInit
    /\ MainInit
    /\ SchedInit
    /\ StatusInit
    /\ QueryInit
    /\ TitleInit
    /\ CleanInit
    /\ DateInit
    /\ ClassInit
    /\ RecentInit
    /\ LinkInit
    /\ active = "main"
    /\ web_pages = <<>>

NextQueries ==
    \/ GetAllArticles
    \/ GetArticlesByCategory
    \/ SearchArticles

SpecQueries == InitQueries /\ [][NextQueries]_vars

\* the loop of main.py on a site whose listing page may fail
InitLoopSleep ==
    /\ InitSched
    /\ active = "main"

NextLoopSleep ==
    \/ StartBackgroundScraper
    \/ StopBackgroundScraper
    \/ \E t \in Threads : ThreadBegin(t)
    \/ \E t \in Threads : LoopCheck(t)
    \/ \E t \in Threads : RunCycleFetching(t)
    \/ \E t \in Threads : SleepDone(t)

SpecLoopSleep == InitLoopSleep /\ [][NextLoopSleep]_vars

\* extract_article_content called once on an article page
InitTitle ==
    /\ StoreInit
    /\ CycleInit
    /\ MainInit
    /\ SchedInit
    /\ StatusInit
    /\ QueryInit
    /\ CleanInit
    /\ DateInit
    /\ ClassInit
    /\ RecentInit
    /\ LinkInit
    /\ active = "main"
    /\ web_pages = <<>>
    /\ article_page \in ArticlePages(MaxElements)
    /\ extracted_title = <<>>

NextTitle == ExtractTitleCall

SpecTitle == InitTitle /\ [][NextTitle]_vars

\* clean_content called once on a content
InitClean ==
    /\ StoreInit
    /\ CycleInit
    /\ MainInit
    /\ SchedInit
    /\ StatusInit
    /\ QueryInit
    /\ TitleInit
    /\ DateInit
    /\ ClassInit
    /\ RecentInit
    /\ LinkInit
    /\ active = "main"
    /\ web_pages = <<>>
    /\ raw_content \in Contents(MaxPieces)
    /\ cleaned = <<>>

NextClean == CleanContentCall

SpecClean == InitClean /\ [][NextClean]_vars

\* categorize_article called again and again with one pair of arguments
InitClassify ==
    /\ StoreInit
    /\ CycleInit
    /\ MainInit
    /\ SchedInit
    /\ StatusInit
    /\ QueryInit
    /\ TitleInit
    /\ CleanInit
    /\ DateInit
    /\ active = "main"
    /\ web_pages = <<>>
    /\ title \in Texts(MaxTitlePieces)
    /\ content \in {<<>>} \cup Fragments
    /\ returned = <<>>
    /\ RecentInit
    /\ LinkInit

NextClassify == CategorizeArticleCall

SpecClassify == InitClassify /\ [][NextClassify]_vars

\* is_recent_article called once, at a time around ten minutes after the
\* instant the timestamp denotes
InitRecent ==
    /\ articles = <<>>
    /\ clock \in {RecentSeconds + d : d \in 0..MaxSkew}
    /\ pc = [s \in Sessions |-> "idle"]
    /\ article_data = [s \in Sessions |-> NoData]
    /\ existing_article = [s \in Sessions |-> NoArticle]
    /\ article = [s \in Sessions |-> NoArticle]
    /\ calls = 0
    /\ CycleInit
    /\ MainInit
    /\ SchedInit
    /\ StatusInit
    /\ QueryInit
    /\ TitleInit
    /\ CleanInit
    /\ DateInit
    /\ ClassInit
    /\ active = "main"
    /\ web_pages = <<>>
    /\ published_date \in PublishedDates
    /\ is_recent = <<>>
    /\ LinkInit

NextRecent == IsRecentArticleCall

SpecRecent == InitRecent /\ [][NextRecent]_vars

\* extract_article_links called once on a listing document
InitLinks ==
    /\ StoreInit
    /\ CycleInit
    /\ MainInit
    /\ SchedInit
    /\ StatusInit
    /\ QueryInit
    /\ TitleInit
    /\ CleanInit
    /\ DateInit
    /\ ClassInit
    /\ RecentInit
    /\ active = "main"
    /\ web_pages = <<>>
    /\ listing \in Listings(MaxAnchors)
    /\ extracted = <<>>

NextLinks == ExtractArticleLinksCall

SpecLinks == InitLinks /\ [][NextLinks]_vars

(***************************************************************************)
(* Claims about the article store                                          *)
(***************************************************************************)
\* the rows that share an identity with the record d
Conflicts(d) ==
    {r \in Rows : r.title = d.title \/ (d.url # NullUrl /\ r.url = d.url)}

\* two records of the same identity: same title, or same non-null url
SameIdentity(d1, d2) ==
    d1.title = d2.title \/ (d1.url # NullUrl /\ d1.url = d2.url)

\* session s has returned from an add_article call and not begun another
Returned(s) == pc[s] = "idle" /\ article_data[s] # NoData

\* C1: in every reachable state of the store no two persisted articles have the
\* same title and no two have the same non-null url.
C1_IdentityInvariant ==
    \A i, j \in 1..Len(articles) :
        i # j => /\ articles[i].title # articles[j].title
                 /\ articles[i].url # NullUrl => articles[i].url # articles[j].url

\* C1 witness: two rows are stored and a session that passed both pre-checks was
\* turned away by the table's constraints.
C1_Witness ==
    /\ Len(articles) >= 2
    /\ \E s \in Sessions :
          /\ Returned(s)
          /\ article[s] = NoArticle
          /\ existing_article[s] = NoArticle

\* the rows sharing an identity with the records of s1 and s2 are exactly those
\* the two calls returned: the identity was not stored by anyone else
OnlyTheseTwo(s1, s2) ==
    (Conflicts(article_data[s1]) \cup Conflicts(article_data[s2]))
        \subseteq {article[s1], article[s2]}

\* C2: two writers calling add_article with records of the same identity that is
\* stored by no one else resolve, in every interleaving, to exactly one winner:
\* one call returns the persisted article, the other returns None, exactly one
\* row is stored, and no call raises.
C2_OneWinner ==
    /\ \A s \in Sessions : pc[s] # "raised"
    /\ \A s1, s2 \in Sessions :
          ( /\ s1 # s2
            /\ Returned(s1) /\ Returned(s2)
            /\ SameIdentity(article_data[s1], article_data[s2])
            /\ OnlyTheseTwo(s1, s2) )
          => /\ (article[s1] = NoArticle) # (article[s2] = NoArticle)
             /\ Cardinality(Conflicts(article_data[s1])
                              \cup Conflicts(article_data[s2])) = 1

\* C2 witness: both calls passed both pre-checks, one inserted and the other lost
\* at the insert.
C2_Witness ==
    \E s1, s2 \in Sessions :
        /\ s1 # s2
        /\ Returned(s1) /\ Returned(s2)
        /\ SameIdentity(article_data[s1], article_data[s2])
        /\ OnlyTheseTwo(s1, s2)
        /\ Truthy(article_data[s2].title) /\ Truthy(article_data[s2].url)
        /\ article[s1] # NoArticle
        /\ article[s2] = NoArticle
        /\ existing_article[s2] = NoArticle

\* session s is inside a call whose record has the title and url of the article
\* its previous call returned
RepeatedCall(s) ==
    /\ pc[s] \in {"check_title", "check_url", "insert"}
    /\ article[s] # NoArticle
    /\ article[s].title = article_data[s].title
    /\ article[s].url = article_data[s].url

\* C3: a second add_article call with the title and url of the article the first
\* call returned changes nothing in the store, does not raise and returns None.
C3_SecondAddIsNoOp ==
    [][\A s \in Sessions :
          (RepeatedCall(s) /\ pc'[s] # pc[s])
          => /\ articles' = articles
             /\ pc'[s] # "raised"
             /\ pc'[s] = "idle" => article'[s] = NoArticle]_vars

\* C3 witness: the repeated call reached the insert, where only the table's
\* constraints can turn it away.
C3_Witness ==
    \E s \in Sessions : RepeatedCall(s) /\ pc[s] = "insert"

(***************************************************************************)
(* Claims about the scrape cycle                                           *)
(***************************************************************************)
\* a page that fetches and passes validation: non-empty title, content of at
\* least the threshold
Valid(page) ==
    page.ok /\ page.title # "" /\ page.content_len >= MinContentLength

\* C4: every record a cycle passes to add_article has a non-empty title and
\* content of at least 100 characters; a candidate whose page fails to fetch or
\* yields an empty title, empty content or shorter content is never passed on.
C4_OnlyValidOffered ==
    /\ \A i \in 1..Len(offered) :
          offered[i].title # "" /\ offered[i].content_len >= MinContentLength
    /\ \A j \in 1..Len(fetched) :
          ~Valid(web_pages[j]) =>
              \A i \in 1..Len(offered) : offered[i].url # fetched[j]

\* C4 witness: a finished cycle offered a record and skipped a page whose content
\* was one character short and a page without a title.
C4_Witness ==
    /\ cpc = "done"
    /\ offered # <<>>
    /\ \E j \in 1..Len(fetched) :
          /\ web_pages[j].ok /\ web_pages[j].title # ""
          /\ web_pages[j].content_len = MinContentLength - 1
    /\ \E j \in 1..Len(fetched) :
          /\ web_pages[j].ok /\ web_pages[j].title = ""
          /\ web_pages[j].content_len = MinContentLength

\* the listed links whose pages fetch and pass validation
ValidLinks == {i \in 1..Len(web_pages) : Valid(web_pages[i])}

\* a run_scraping_job cycle has returned; the listing was fetched and held no
\* more links than max_articles; no valid record's identity was stored when the
\* cycle began and no two valid records share an identity
EndToEndCase ==
    /\ cpc = "done"
    /\ kind = "job"
    /\ soup
    /\ Len(web_pages) <= max_articles
    /\ \A i \in ValidLinks : \A k \in 1..initial_count :
          /\ articles[k].title # web_pages[i].title
          /\ articles[k].url # UrlNames[i]
    /\ \A i, j \in ValidLinks : i # j => web_pages[i].title # web_pages[j].title

C9_ListingFailure ==
    (cpc \in {"scrape", "save", "done"} /\ ~soup) =>
        /\ fetched = <<>>
        /\ offered = <<>>
        /\ Len(articles) = initial_count
        /\ cpc # "scrape"
        /\ cpc = "save" => ENABLED CycleReturn
        /\ cpc = "done" => \A f \in DOMAIN stats : stats[f] = 0
        /\ (cpc = "done" /\ kind = "job") =>
              DOMAIN stats = {"total_scraped", "total_saved", "duplicates_skipped"}

\* C9 witness: the listing of a site with a valid article failed to fetch and
\* run_scraping_job returned.
C9_Witness ==
    /\ cpc = "done"
    /\ kind = "job"
    /\ ~soup
    /\ ValidLinks # {}

Stopped ==
    /\ ~scraper_running
    /\ ~is_running
    /\ \A t \in Threads : ~Alive(t) /\ ~SchedAlive(t)

\* C6: after stop is called, and as long as no start is called, the loop
\* eventually exits and leaves the running flag false.
C6_StopLeadsToStopped ==
    stop_requested ~> (~stop_requested \/ Stopped)

\* a loop that has passed its while test and is in an iteration
Polling(t) == tpc[t] \in {"cycle", "sleep", "backoff"}

SchedPolling(t) == spc[t] \in {"pending", "sleep"}

\* C7: at most one background polling loop is alive and running cycles.
C7_AtMostOneLoop ==
    /\ Cardinality({t \in Threads : Polling(t)}) <= 1
    /\ Cardinality({t \in Threads : SchedPolling(t)}) <= 1

(***************************************************************************)
(* Claims about categorize_article                                         *)
(***************************************************************************)
\* the keywords of the i-th category of the lexicon that occur in text
KeywordsPresent(i, text) ==
    {CATEGORY_KEYWORDS[i].keywords[k] : k \in
        {j \in 1..Len(CATEGORY_KEYWORDS[i].keywords) :
            Occurs(CATEGORY_KEYWORDS[i].keywords[j], text)}}

\* per category of the lexicon, how many of its keywords occur in text
Counts(text) ==
    [i \in 1..Len(CATEGORY_KEYWORDS) |-> Cardinality(KeywordsPresent(i, text))]

\* the categories with the highest count, when that count is above zero
Top(text) ==
    LET count == Counts(text)
    IN  {i \in DOMAIN count :
            count[i] > 0 /\ \A j \in DOMAIN count : count[j] <= count[i]}

\* what the claim lets a call return for the text the keywords are counted in:
\* "General" when every category counts zero, else the first-defined category
\* among those with the highest count
Expected(text) ==
    LET top == Top(text)
    IN  IF top = {} THEN "General"
        ELSE CATEGORY_KEYWORDS[CHOOSE i \in top : \A j \in top : i <= j].category

\* C10 as stated: every call returns the first-defined category among those
\* with the highest count of keywords occurring in the lower-cased title
\* followed directly by the content, "General" when all count zero, and calls
\* with the same arguments return the same category.
C10_AsStated ==
    LET expected == Expected(Lower(title \o content))
    IN  \A n \in 1..Len(returned) : returned[n] = expected /\ returned[n] = returned[1]

\* C10: every call returns the first-defined category among those with the
\* highest count of keywords occurring in the lower-cased text made of the
\* title, one space and the content, "General" when all count zero, and
\* calls with the same arguments return the same category.
C10_Classifier ==
    LET expected == Expected(Lower(title \o <<" ">> \o content))
    IN  \A n \in 1..Len(returned) : returned[n] = expected /\ returned[n] = returned[1]

\* C10 witness: two calls were made with a title and a content in which two
\* categories share the highest count.
C10_Witness ==
    /\ Len(returned) = 2
    /\ title # <<>>
    /\ content # <<>>
    /\ Cardinality(Top(Lower(title \o <<" ">> \o content))) >= 2

(***************************************************************************)
(* Claims about is_recent_article                                          *)
(***************************************************************************)
\* a timestamp is present: a datetime, or a text in a format the function reads
TimestampPresent ==
    \/ published_date.type = "datetime"
    \/ published_date.type = "str" /\ published_date.fmt \in RecentFormats

\* C11: is_recent_article returns true if and only if the published timestamp
\* is present and the time of the call minus the timestamp is at most 600
\* seconds.
C11_RecentIffWithinTenMinutes ==
    is_recent # <<>> =>
        (is_recent[1] <=> (TimestampPresent /\ clock - published_date.at <= 600))

(***************************************************************************)
(* Claims about extract_article_links                                      *)
(***************************************************************************)
\* the positions (selector, anchor) at which a selector matches an anchor
\* whose href denotes the url
MatchesOf(url) ==
    {m \in (1..Len(Selectors)) \X (1..Len(listing)) :
        /\ Selects(m[1], listing[m[2]])
        /\ HrefTruthy(listing[m[2]].href)
        /\ listing[m[2]].href.netloc \in {NoNetloc, BaseNetloc}
        /\ listing[m[2]].href.path = url.path}

\* the same-domain urls with a non-root path outside the denylist that some
\* selector matched
Wanted ==
    {url \in [netloc : {BaseNetloc}, path : HrefPaths] :
        /\ url.path \notin {<<>>, <<"/">>}
        /\ \A k \in 1..Len(ExcludedPaths) : ~StartsWith(url.path, ExcludedPaths[k])
        /\ MatchesOf(url) # {}}

\* the first match of a url: the earliest selector, then the earliest anchor
FirstMatch(url) ==
    CHOOSE m \in MatchesOf(url) :
        \A o \in MatchesOf(url) : m[1] < o[1] \/ (m[1] = o[1] /\ m[2] <= o[2])

Before(m, o) == m[1] < o[1] \/ (m[1] = o[1] /\ m[2] < o[2])

\* C12: the returned list holds no url whose path starts with a denylisted
\* prefix, and holds every same-domain url with a non-root, non-denylisted path
\* that some selector matched exactly once, in the order of first matches.
C12_DiscoveredLinks ==
    extracted # <<>> =>
        LET links == extracted[1]
        IN  /\ \A n \in 1..Len(links) : \A k \in 1..Len(ExcludedPaths) :
                  ~StartsWith(links[n].path, ExcludedPaths[k])
            /\ \A url \in Wanted :
                  Cardinality({n \in 1..Len(links) : links[n] = url}) = 1
            /\ \A a, b \in 1..Len(links) :
                  (links[a] \in Wanted /\ links[b] \in Wanted
                     /\ Before(FirstMatch(links[a]), FirstMatch(links[b]))) => a < b

(***************************************************************************)
(* Claims about storage failures in a cycle                                *)
(***************************************************************************)
\* the records of the cycle that add_article dropped for the given cause
Dropped(cause) == {n \in 1..Len(causes) : causes[n] = cause}

\* C13: what add_article returns for a duplicate differs from what it returns
\* for a storage failure, and the duplicates a cycle reports do not include
\* the records dropped on a storage failure.
C13_DuplicateIsNotFailure ==
    /\ \A m \in Dropped("duplicate") : \A n \in Dropped("error") : added[m] # added[n]
    /\ (cpc = "done" /\ kind = "job") =>
          stats.duplicates_skipped = Cardinality(Dropped("duplicate"))

(***************************************************************************)
(* Claims about the rule of rejection                                      *)
(***************************************************************************)
\* C14: with no storage failure, a call of add_article returns None exactly
\* when a persisted article has the record's title or its non-null url;
\* otherwise it inserts the record and returns it with an id no row had.
C14_RejectedIffConflict ==
    [][\A s \in Sessions :
          (pc[s] # "idle" /\ pc'[s] = "idle") =>
             /\ article'[s] = NoArticle => Conflicts(article_data[s]) # {}
             /\ article'[s] # NoArticle =>
                   /\ Conflicts(article_data[s]) = {}
                   /\ articles' = Append(articles, article'[s])
                   /\ article'[s].title = article_data[s].title
                   /\ article'[s].url = article_data[s].url
                   /\ \A r \in Rows : r.id # article'[s].id]_vars

\* C14 witness: one call was rejected for sharing only the title of a stored
\* article, another for sharing only its url, and that article was inserted
\* by a call that shared neither.
C14_Witness ==
    \E s1, s2 \in Sessions : \E r \in Rows :
        /\ s1 # s2
        /\ Returned(s1) /\ article[s1] = NoArticle
        /\ Returned(s2) /\ article[s2] = NoArticle
        /\ Conflicts(article_data[s1]) = {r}
        /\ Conflicts(article_data[s2]) = {r}
        /\ article_data[s1].title = r.title /\ article_data[s1].url # r.url
        /\ article_data[s2].title # r.title /\ article_data[s2].url = r.url

(***************************************************************************)
(* Claims about running the cycle again                                    *)
(***************************************************************************)
\* the running cycle is a second run over the same site: the cycle before it
\* fetched the listing and handled at least the candidates of this one, and
\* this one fetched the listing too
SecondRun ==
    /\ cycles >= 2
    /\ cpc \in {"scrape", "save", "done"}
    /\ soup
    /\ previous

Candidates == Truncate(WebLinks, max_articles)

\* C16: a candidate whose page does not fetch or does not pass validation, or
\* a record lost to a storage failure, does not end the cycle: once the
\* candidates are handled every one of them was fetched, and once the cycle
\* returns every valid record was offered to add_article, once and in order.
C16_FailuresDoNotAbort ==
    /\ (cpc \in {"save", "done"} /\ soup) => fetched = Candidates
    /\ (cpc = "done" /\ soup) =>
          /\ Len(offered) = Cardinality({i \in 1..Len(Candidates) : Valid(web_pages[i])})
          /\ \A i \in 1..Len(Candidates) :
                Valid(web_pages[i]) =>
                   \E n \in 1..Len(offered) :
                      /\ offered[n].url = Candidates[i]
                      /\ offered[n].title = web_pages[i].title
                      /\ n = Cardinality({j \in 1..i : Valid(web_pages[j])})
    /\ (cpc = "save" /\ save_idx = Len(scraped)) => ENABLED CycleReturn

\* C16 witness: the first candidate did not fetch, the record of the second was
\* lost to a storage failure and the record of the third was saved.
C16_Witness ==
    /\ cpc = "done"
    /\ Len(fetched) = 3
    /\ ~web_pages[1].ok
    /\ causes = <<"error", "saved">>

(***************************************************************************)
(* Claims about recency inside a cycle                                     *)
(***************************************************************************)
\* C17: every valid record of a cycle is offered to add_article, whatever
\* is_recent_article returns for it and also when it has no published date.
C17_RecencyDoesNotGate ==
    (cpc = "done" /\ soup) =>
        \A i \in 1..Len(Candidates) :
            Valid(web_pages[i]) =>
                \E n \in 1..Len(offered) : offered[n].url = Candidates[i]

\* C17 witness: a finished cycle offered a record without a published date and
\* a record whose date is a few seconds old, and both were persisted.
C17_Witness ==
    /\ cpc = "done"
    /\ soup
    /\ Len(offered) = 2
    /\ saved_count = 2
    /\ web_pages[1].published_date = NoDate
    /\ web_pages[2].published_date.type = "datetime"
    /\ clock - web_pages[2].published_date.at < RecentSeconds
    /\ ~IsRecentArticle(web_pages[1].published_date, clock)


(***************************************************************************)
(* Claims about status queries and the manual run                          *)
(***************************************************************************)
\* the flag and the thread reference of main.py
MainLoopState == <<scraper_running, scraper_thread>>

\* the flag, the event and the thread reference of scheduler.py
SchedLoopState == <<is_running, stop_event, scheduler_thread>>

\* a step in which a status query or a manual run is answered
Answered == response' # response

\* C18: the running flag and the thread reference change only in a step of
\* start, of stop or of the loop itself; a status query or a manual run, taken
\* at any point of any interleaving with the loops, leaves them and the
\* position of every loop thread unchanged, and is never kept waiting.
C18_QueriesLeaveTheLoopAlone ==
    /\ [][MainLoopState' # MainLoopState =>
             \/ StartBackgroundScraper
             \/ StopBackgroundScraper
             \/ \E t \in Threads : ThreadBegin(t)]_vars
    /\ [][SchedLoopState' # SchedLoopState => (StartScheduler \/ StopScheduler)]_vars
    /\ [][Answered => UNCHANGED <<mainVars, schedVars>>]_vars
    /\ [](active = "main" => (ENABLED GetScraperStatus /\ ENABLED RunScraperNow))
    /\ [](active = "scheduler" => ENABLED GetSchedulerStatus)

\* C18 witness: a manual run was answered while the loop thread is in the
\* middle of a cycle, and the loop is still running.
C18_Witness ==
    /\ response.request = "run_scraper_now"
    /\ scraper_running
    /\ scraper_thread # 0
    /\ tpc[scraper_thread] = "cycle"
    /\ last_cycle # <<>>


\* a step in which a status query is answered
StatusAnswered ==
    /\ Answered
    /\ response'.request \in {"get_scraper_status", "get_scheduler_status"}

\* the running flag as the answer reports it
ReportedRunning(r) ==
    IF r.request = "get_scraper_status" THEN r.scraper_running ELSE r.is_running

\* the running flag the answer is about
RunningFlag == IF active = "main" THEN scraper_running ELSE is_running

\* the answer carries the time the last cycle began, if any cycle began
ReportsLastCycle(r) == last_cycle # <<>> => r.timestamp = last_cycle[1]

\* C19: the answer to a status query holds the current value of the running
\* flag, the poll interval, and the time of the last cycle rather than the time
\* of the query.
C19_StatusContents ==
    [][StatusAnswered =>
          /\ ReportedRunning(response') = RunningFlag
          /\ "interval" \in DOMAIN response'
          /\ ReportsLastCycle(response')]_vars


(***************************************************************************)
(* Claims about parse_date                                                 *)
(***************************************************************************)
\* the text is parsed by one of the fixed formats
MatchesAFormat(text) ==
    /\ text.str
    /\ \E f \in 1..Len(DateFormats) : StrpTime(text, f).raised = ""

\* the text holds the numeric day/month/year pattern
HasNumericPattern(text) == text.str /\ PatternAt(text.tokens) # {}

\* the numbers of the pattern are a day of the calendar
DenotesADate(text) ==
    LET g == Search(text.tokens)
    IN  /\ g.month \in 1..12
        /\ g.day >= 1
        /\ g.day <= DaysInMonth(g.year, g.month)

\* C20: parse_date never raises; it returns None for a text that matches none
\* of the fixed formats and holds no numeric pattern, and also for a text whose
\* numeric pattern matches but denotes no day of the calendar.
C20_ParseDateNeverRaises ==
    parsed # <<>> =>
        /\ parsed[1].raised = ""
        /\ (~MatchesAFormat(date_text) /\ ~HasNumericPattern(date_text)) => parsed[1].none
        /\ (/\ ~MatchesAFormat(date_text)
            /\ HasNumericPattern(date_text)
            /\ ~DenotesADate(date_text)) => parsed[1].none

\* C20 witness: parse_date was called on "31/4/2024" and returned None.
C20_Witness ==
    /\ date_text = Text(<<Num(31), Sym("/"), Num(4), Sym("/"), Num(2024)>>)
    /\ parsed = <<ReturnsNone>>


(***************************************************************************)
(* Claims about the round trip of a date                                   *)
(***************************************************************************)
\* every number of the text is written in its full width
FullWidth(text) ==
    \A i \in 1..Len(text.tokens) : text.tokens[i].t = "num" => text.tokens[i].width >= 2

\* C21 as stated: for every fixed format and every string accepted under that
\* format, parsing the string and rendering the result in the same format
\* reproduces the string.
C21_RoundTripOfAnyAccepted ==
    rendered # <<>> => rendered[1] = date_text.tokens

\* C21: the round trip reproduces every accepted string whose numbers are
\* written in their full width (two digits for day, month, hour, minute and
\* second, four for the year).
C21_RoundTripOfFullWidth ==
    (rendered # <<>> /\ FullWidth(date_text)) => rendered[1] = date_text.tokens

\* C21 witness: "05 Mar, 2024 12:05AM" was parsed under the first format and
\* rendered again.
C21_Witness ==
    /\ FullWidth(date_text)
    /\ date_format = 1
    /\ date_text = Text(Written(Value(2024, 3, 5, 0, 5, 0), 1, TRUE))
    /\ parsed = <<Value(2024, 3, 5, 0, 5, 0)>>
    /\ rendered = <<date_text.tokens>>


(***************************************************************************)
(* Claims about the read operations                                        *)
(***************************************************************************)
\* the text holds the query as a substring
HoldsQuery(text, query) ==
    \E i \in 0..(Len(text) - Len(query)) : SubSeq(text, i + 1, i + Len(query)) = query

\* the persisted articles the claim lets an operation return
Matching ==
    {articles[i] : i \in {j \in 1..Len(articles) :
        CASE query_args.op = "get_articles_by_category" ->
                 articles[j].category = query_args.category
          [] query_args.op = "search_articles" ->
                 \/ HoldsQuery(articles[j].title, query_args.query)
                 \/ HoldsQuery(articles[j].content, query_args.query)
          [] OTHER -> TRUE}}

\* C22: a read operation the database answered returns matching persisted
\* articles only, each once, most recently ingested first, after skipping the
\* first skip matches and at most limit of them.
C22_ReadOperations ==
    (query_args.op # "none" /\ ~query_result.failed) =>
        LET rows == query_result.rows
            left == Cardinality(Matching) - query_args.skip
        IN  /\ \A i \in 1..Len(rows) : rows[i] \in Matching
            /\ \A i, j \in 1..Len(rows) : rows[i] = rows[j] => i = j
            /\ \A i \in 1..(Len(rows) - 1) : rows[i].scraped_at >= rows[i + 1].scraped_at
            /\ Len(rows) = IF left <= 0 THEN 0
                           ELSE IF left < query_args.limit THEN left ELSE query_args.limit
            /\ rows # <<>> =>
                  /\ Cardinality({m \in Matching : m.scraped_at > rows[1].scraped_at})
                        <= query_args.skip
                  /\ Cardinality({m \in Matching : m.scraped_at >= Last(rows).scraped_at})
                        >= query_args.skip + Len(rows)


(***************************************************************************)
(* Claims about the truncation of the candidates                           *)
(***************************************************************************)
\* C23: the article pages a cycle fetches are the first max_articles
\* discovered links (all of them if fewer were discovered), in discovery order
\* and each at most once; no link beyond that position is fetched.
C23_FetchesFirstCandidatesOnly ==
    cpc # "idle" =>
        /\ Len(fetched) <= max_articles
        /\ Len(fetched) <= Len(WebLinks)
        /\ \A i \in 1..Len(fetched) : fetched[i] = WebLinks[i]
        /\ \A i, j \in 1..Len(fetched) : fetched[i] = fetched[j] => i = j
        /\ \A i \in (max_articles + 1)..Len(WebLinks) :
              \A n \in 1..Len(fetched) : fetched[n] # WebLinks[i]
        /\ (cpc \in {"save", "done"} /\ soup) =>
              Len(fetched) = IF max_articles < Len(WebLinks) THEN max_articles
                             ELSE Len(WebLinks)

\* C23 witness: a finished cycle with max_articles = 2 on a listing of three
\* links fetched two pages.
C23_Witness ==
    /\ cpc = "done"
    /\ soup
    /\ max_articles = 2
    /\ Len(WebLinks) = 3
    /\ Len(fetched) = 2


(***************************************************************************)
(* Claims about the sleep after a failed listing                           *)
(***************************************************************************)
\* C24: when a cycle of the background loop could not fetch the listing page,
\* the sleep that follows is the backoff interval, which is shorter than the
\* base interval.
C24_BackoffAfterListingFailure ==
    [][\A t \in Threads :
          (tpc[t] = "cycle" /\ tpc'[t] # "cycle" /\ ~soup') =>
              /\ SleepSeconds(tpc'[t]) = RetryTime
              /\ RetryTime < WaitTime]_vars


(***************************************************************************)
(* Claims about the host of a discovered link                              *)
(***************************************************************************)
\* the registrable domain of the site
SiteDomain == <<"d","a","w","n",".","c","o","m">>

EndsWith(text, suffix) ==
    /\ Len(suffix) <= Len(text)
    /\ SubSeq(text, Len(text) - Len(suffix) + 1, Len(text)) = suffix

\* the host is the site's domain or one of its subdomains
HostOfSite(netloc) == netloc = SiteDomain \/ EndsWith(netloc, <<".">> \o SiteDomain)

\* C25: every url extract_article_links returns has the site's domain as its
\* host; a host of another domain that only holds the name of the site is
\* never accepted.
C25_LinksAreOfTheSite ==
    extracted # <<>> => \A n \in 1..Len(extracted[1]) : HostOfSite(extracted[1][n].netloc)


(***************************************************************************)
(* Claims about the title of an article                                    *)
(***************************************************************************)
\* the selectors that match an element of non-empty text
WithText(page) ==
    {k \in 1..Len(TitleSelectors) :
        /\ SelectOne(page, TitleSelectors[k]) # 0
        /\ Strip(page[SelectOne(page, TitleSelectors[k])].text) # <<>>}

\* C26: the title is the text of the first selector, in the order of the
\* list, whose match has non-empty text, also when a selector before it
\* matches an element of empty text.
C26_TitleIsFirstNonEmptyText ==
    (extracted_title # <<>> /\ WithText(article_page) # {}) =>
        LET k == CHOOSE n \in WithText(article_page) : \A o \in WithText(article_page) : n <= o
        IN  extracted_title[1] =
               Strip(article_page[SelectOne(article_page, TitleSelectors[k])].text)


(***************************************************************************)
(* Claims about cooperative cancellation                                   *)
(***************************************************************************)
\* a loop thread begins a cycle in this step
BeginsCycle ==
    \/ \E t \in Threads : tpc[t] # "cycle" /\ tpc'[t] = "cycle"
    \/ \E t \in Threads : spc[t] # "pending" /\ spc'[t] = "pending"

\* C27: stop leaves a cycle in progress alone, and while stop was called and
\* start was not called since, no loop begins a new cycle.
C27_CooperativeCancellation ==
    /\ [][(StopBackgroundScraper \/ StopScheduler) => UNCHANGED <<tpc, spc>>]_vars
    /\ [][(stop_requested /\ stop_requested') => ~BeginsCycle]_vars


(***************************************************************************)
(* Claims about clean_content                                              *)
(***************************************************************************)
\* C28: the content clean_content returns holds no boilerplate pattern, no
\* run of two or more whitespace characters and no whitespace at either end,
\* also when a boilerplate pattern was removed from between two words.
C28_CleanedContent ==
    cleaned # <<>> =>
        LET text == cleaned[1]
        IN  /\ \A k \in 1..Len(UnwantedPatterns) : \A i \in 1..Len(text) :
                  MatchFrom(text, i, UnwantedPatterns[k], 1) = 0
            /\ \A i \in 1..(Len(text) - 1) :
                  ~(text[i] \in WhitespaceTokens /\ text[i + 1] \in WhitespaceTokens)
            /\ text # <<>> =>
                  (text[1] \notin WhitespaceTokens /\ text[Len(text)] \notin WhitespaceTokens)


(***************************************************************************)
(* Claims about records of one cycle that share an identity                *)
(***************************************************************************)
\* two records have the same title or the same url
SharesIdentity(a, b) == a.title = b.title \/ a.url = b.url

\* the records offered before the j-th that share an identity with it
EarlierSharing(j) == {i \in 1..(j - 1) : SharesIdentity(offered[i], offered[j])}

\* a row of the table has this record's title and url
Persisted(d) ==
    \E r \in 1..Len(articles) : articles[r].title = d.title /\ articles[r].url = d.url

\* the record shares no identity with a row the table had when the cycle began
NewToTheStore(d) ==
    \A r \in 1..initial_count : articles[r].title # d.title /\ articles[r].url # d.url

JobReturned == cpc = "done" /\ kind = "job"

=============================================================================
